---------------------------- MODULE Spec2Model ----------------------------
(***************************************************************************)
(* A model of the repository-mining scripts of Baldiotti/Mineracao.        *)
(*                                                                         *)
(* The repository holds five generations of one script:                    *)
(*   "gqlBasic"    src/scripts/mine_ts_react_jest.ts   lines    1 ..  413  *)
(*   "gqlLimits"   src/scripts/mine_ts_react_jest.js   lines 1006 .. 1453  *)
(*   "gqlFilters"  src/unnamed/part_000                lines    1 ..  626  *)
(*   "restSeq"     src/scripts/mine_ts_react_jest.ts   lines  432 .. 1181  *)
(*   "restConc"    src/scripts/mine_ts_react_jest.js   lines    1 .. 1004  *)
(* The first three page through the GraphQL search with a cursor, the last *)
(* two through the REST search with a page number; the last one analyses   *)
(* the items of a page as tasks of a ConcurrencyLimiter.                   *)
(***************************************************************************)
EXTENDS Integers, Sequences, FiniteSets, TLC

VARIABLES
    variant,          \* which generation of the script runs
    cfg,              \* the environment-derived configuration constants
    pc,               \* position of main()
    qi,               \* index of the query of the for-loop of main()
    page,             \* REST: `page`; GraphQL: unused (1)
    after,            \* GraphQL: `after` cursor (0 = null); REST: unused (0)
    fetched,          \* search requests issued for the current query
    result,           \* the page last fetched (`result` / `data.search`)
    items,            \* its items / edges: repository identities
    idx,              \* index of the item the for-loop of main() is at
    processed,        \* the Set `processed`
    rows,             \* rows appended to the CSV file by this run
    totalQualified,   \* `totalQualified`
    foundThisQuery,   \* gqlBasic: `foundThisQuery`
    reachedLimit,     \* `reachedLimit`
    stopRequested,    \* `stopRequested`
    running,          \* ConcurrencyLimiter.running
    queue,            \* ConcurrencyLimiter.queue: task ids (item positions)
    tasks,            \* restConc: state and outcome of each task of the page
    detectCount,      \* history: detectTech calls started per identity
    dpc,              \* one analysis: position in the try block
    da,               \* one analysis: the API's answers detectTech will get
    tech,             \* one analysis: `tech`, what detectTech returned
    courseFlag,       \* one analysis: `courseFlag.isCourseOrBoilerplate`
    kept,             \* one analysis: whether the repository was kept
    now,              \* one client call: Date.now(), in milliseconds
    cpc,              \* one client call: position of ghGET / ghGraphQL
    ckind,            \* one client call: "GET" (ghGET) or "GraphQL" (ghGraphQL)
    resp,             \* one client call: `res`, the response last received
    wakeAt,           \* one client call: when the timer of sleep() is due
    nreq,             \* one client call: requests issued so far
    outcome,          \* one client call: what the call returned
    sentAt,           \* one client call: when the request in flight was issued
    nlimited,         \* one client call: history, rate-limit responses received
    error,            \* one client call: the content of the Error it threw
    spc,              \* start-up: position of the process
    env,              \* start-up: process.env, the three token variables
    GITHUB_TOKEN,     \* start-up: the constant GITHUB_TOKEN
    exitCode,         \* start-up: the exit code, <<>> while the process runs
    dirExists,        \* output: whether OUTPUT_DIR exists
    csv,              \* output: CSV_FILE, whether it exists and its lines
    csvAtStart,       \* output: history, CSV_FILE when the process started
    bearers,          \* start-up: history, the bearer of each request issued
    npc,              \* one classification: position of detectCourseOrBoilerplate
    nin,              \* one classification: its arguments and the settings
    nout,             \* one classification: `isCourseOrBoilerplate` returned
    lpc,              \* detectTech by layers: position in detectTech
    la,               \* detectTech by layers: the API's answers for this call
    sig,              \* detectTech by layers: the locals hasTS .. hasFrontendTestLibs
    runs,             \* detectTech by layers: history, answers and outcome of each call
    plan,             \* detectTech by layers: the answers of the calls to come
    lreq,             \* detectTech by layers: history, REST requests of this call
    bpc,              \* buildQueries: position of the call
    bin,              \* buildQueries: the date and the settings it reads
    queries,          \* buildQueries: the array it returned
    kpc,              \* source scan: position in detectTech / searchForTestFiles
    ksig,             \* source scan: the signals when detectTech reaches the scan
    kpat,             \* source scan: index of the loop over testPatterns
    kstack,           \* source scan: the calls of searchDirectoryForReactTests
    kfound,           \* source scan: `foundReactTests`
    klast,            \* source scan: the request last issued
    nscan,            \* source scan: history, requests issued
    kmatched,         \* source scan: history, a file has matched
    tpc,              \* throttling: position of ghGET after its response
    tres,             \* throttling: the response and Date.now()
    tslept            \* throttling: the argument of sleep(), <<>> for no sleep

driverVars == <<variant, cfg, pc, qi, page, after, fetched, result, items, idx,
                processed, rows, totalQualified, foundThisQuery, reachedLimit,
                stopRequested, running, queue, tasks, detectCount>>
detectVars == <<dpc, da, tech, courseFlag, kept>>
clientVars == <<now, cpc, ckind, resp, wakeAt, nreq, outcome, sentAt, nlimited,
                error>>
startVars == <<spc, env, GITHUB_TOKEN, exitCode, dirExists, csv, csvAtStart,
               bearers>>
noiseVars == <<npc, nin, nout>>
layerVars == <<lpc, la, sig, runs, plan, lreq>>
queryVars == <<bpc, bin, queries>>
scanVars == <<kpc, ksig, kpat, kstack, kfound, klast, nscan, kmatched>>
throttleVars == <<tpc, tres, tslept>>
harnessVars == <<noiseVars, layerVars, queryVars, scanVars, throttleVars>>
vars == <<driverVars, detectVars, clientVars, startVars, harnessVars>>

Variants == {"gqlBasic", "gqlLimits", "gqlFilters", "restSeq", "restConc"}
CursorVariants == {"gqlBasic", "gqlLimits", "gqlFilters"}
OffsetVariants == {"restSeq", "restConc"}
\* the generations that declare stopRequested / reachedLimit / MAX_QUALIFIED
FlagVariants == Variants \ {"gqlBasic"}
\* the generations that run detectCourseOrBoilerplate
FilterVariants == {"gqlFilters", "restSeq", "restConc"}
\* the generations whose detectTech has the source scan
ScanVariants == {"restSeq", "restConc"}

Min(S) == CHOOSE x \in S : \A y \in S : x <= y
Range(s) == {s[i] : i \in DOMAIN s}

-----------------------------------------------------------------------------
(***************************************************************************)
(* Technology detection.                                                   *)
(*                                                                         *)
(* The answers of the API to one analysis are a record `a`:                *)
(*   gql          "ok" | "fail"     the GetRepoInfo GraphQL query          *)
(*   langs        "ts" | "none" | "err"           /languages               *)
(*   pkg          [st, deps, dev, scripts]        package.json             *)
(*                st: "ok" parsed | "bad" unparseable | "absent" | "err"   *)
(*   topics       [st: "ok" | "err", names]       /topics                  *)
(*   tsconfig, tsconfigBase   "present" | "absent" | "err"                 *)
(*   jestConfigs  sequence over JestConfigCandidates of the same           *)
(*   scan         the files of the repository that the scan can meet: a    *)
(*                set of [dir, name, content], dir the sequence of         *)
(*                directory names from the root, content the text or "err" *)
(*   nameDesc     class of the text of name and description                *)
(*   readme       class of the README text, or "err"                       *)
(* "err" is a request that fails: ghGET throws (network error, timeout,    *)
(* non-2xx other than 404); "absent" is a 404 or an empty content.         *)
(***************************************************************************)

\* String.prototype.toLowerCase on the vocabulary of the model
toLowerCase(s) ==
    CASE s = "React" -> "react"
      [] s = "JEST" -> "jest"
      [] s = "Tutorial" -> "tutorial"
      [] OTHER -> s

\* s.includes('jest') on the lower-cased script strings of the model
includesJest(s) == s \in {"jest", "jest --coverage", "react-scripts test --env=jest"}

hasDep(pkgJson, name) == name \in pkgJson.deps \/ name \in pkgJson.dev

pkgHasAnyDep(pkgJson, names) == \E n \in names : hasDep(pkgJson, n)

scriptsContain(pkgJson) ==
    \E s \in pkgJson.scripts : includesJest(toLowerCase(s))

JestPackages == {"jest", "@jest/globals", "ts-jest", "babel-jest"}
ReactPackages == {"react", "react-dom"}
RTLPackages == {"@testing-library/react", "@testing-library/jest-dom",
                "@testing-library/user-event"}

JestConfigCandidates == <<"jest.config.js", "jest.config.cjs", "jest.config.mjs",
                          "jest.config.ts", "jest.config.json">>

\* detectFrontendFromPkg of gqlFilters
detectFrontendFromPkgFilters(pkgJson) ==
    LET hasJest == pkgHasAnyDep(pkgJson, JestPackages) \/ scriptsContain(pkgJson)
        hasRTL == pkgHasAnyDep(pkgJson, RTLPackages)
    IN  [hasFrontendTests |-> hasJest \/ hasRTL,
         libs |-> (IF hasRTL THEN <<"testing-library">> ELSE <<>>)
                  \o (IF hasJest THEN <<"jest">> ELSE <<>>),
         hasJest |-> hasJest,
         hasReactDeps |-> FALSE,
         hasFrontendTestLibs |-> FALSE]

\* a manifest layer that does not know enzyme
detectFrontendFromPkgNoEnzyme(pkgJson) ==
    LET hasJest == pkgHasAnyDep(pkgJson, JestPackages) \/ scriptsContain(pkgJson)
        hasReactDeps == pkgHasAnyDep(pkgJson, ReactPackages)
        hasRTL == pkgHasAnyDep(pkgJson, RTLPackages)
    IN  [hasFrontendTests |-> hasReactDeps /\ hasJest /\ hasRTL,
         libs |-> (IF hasRTL THEN <<"testing-library">> ELSE <<>>)
                  \o (IF hasJest THEN <<"jest">> ELSE <<>>),
         hasJest |-> hasJest,
         hasReactDeps |-> hasReactDeps,
         hasFrontendTestLibs |-> hasRTL]

\* detectFrontendFromPkg of restSeq and restConc
detectFrontendFromPkg(pkgJson) ==
    LET hasJest == pkgHasAnyDep(pkgJson, JestPackages) \/ scriptsContain(pkgJson)
        hasReactDeps == pkgHasAnyDep(pkgJson, ReactPackages)
        hasRTL == pkgHasAnyDep(pkgJson, RTLPackages)
        hasEnzyme == pkgHasAnyDep(pkgJson, {"enzyme"})
        hasFrontendTestLibs == hasRTL \/ hasEnzyme
    IN  [hasFrontendTests |-> hasReactDeps /\ hasJest /\ hasFrontendTestLibs,
         libs |-> (IF hasRTL THEN <<"testing-library">> ELSE <<>>)
                  \o (IF hasEnzyme THEN <<"enzyme">> ELSE <<>>)
                  \o (IF hasJest THEN <<"jest">> ELSE <<>>),
         hasJest |-> hasJest,
         hasReactDeps |-> hasReactDeps,
         hasFrontendTestLibs |-> hasFrontendTestLibs]

\* topics.map((t) => t.toLowerCase()).includes('react')
topicsIncludeReact(names) == \E t \in names : toLowerCase(t) = "react"

\* the tsconfig.json / tsconfig.base.json requests of the REST detection
tsconfigProbe(a) ==
    IF a.tsconfig = "err" THEN "threw"
    ELSE IF a.tsconfig = "present" THEN "found"
    ELSE IF a.tsconfigBase = "err" THEN "threw"
    ELSE IF a.tsconfigBase = "present" THEN "found"
    ELSE "none"

\* the loop over the jest.config.* candidates of the REST detection: the
\* first candidate that is not absent decides
jestConfigProbe(a) ==
    LET hit == {i \in 1..Len(JestConfigCandidates) : a.jestConfigs[i] # "absent"}
    IN  IF hit = {} THEN "none"
        ELSE IF a.jestConfigs[Min(hit)] = "present" THEN "found"
        ELSE "threw"

NoTech == [threw |-> FALSE, hasTS |-> FALSE, hasReact |-> FALSE, hasJest |-> FALSE,
           hasFrontendTests |-> FALSE, feLibs |-> <<>>, topics |-> {},
           hasReactDeps |-> FALSE, hasFrontendTestLibs |-> FALSE]

Threw == [NoTech EXCEPT !.threw = TRUE]


\* detectTech of gqlBasic and gqlLimits
detectTechBasic(a) ==
    LET pkgJson == a.pkg.st = "ok"
        hasTS1 == a.langs = "ts"
                  \/ (pkgJson /\ pkgHasAnyDep(a.pkg, {"typescript"}))
        hasReact1 == pkgJson /\ pkgHasAnyDep(a.pkg, ReactPackages)
        hasJest1 == pkgJson /\ (pkgHasAnyDep(a.pkg, JestPackages)
                                \/ scriptsContain(a.pkg))
        \* the topics are requested only while React is undetermined
        topics == IF ~hasReact1 /\ a.topics.st = "ok" THEN a.topics.names ELSE {}
        hasReact2 == hasReact1 \/ topicsIncludeReact(topics)
        tsProbe == IF hasTS1 THEN "skip" ELSE tsconfigProbe(a)
        jestProbe == IF hasJest1 THEN "skip" ELSE jestConfigProbe(a)
    IN  IF a.pkg.st = "err" \/ tsProbe = "threw" \/ jestProbe = "threw"
        THEN Threw
        ELSE [NoTech EXCEPT !.hasTS = hasTS1 \/ tsProbe = "found",
                            !.hasReact = hasReact2,
                            !.hasJest = hasJest1 \/ jestProbe = "found"]

\* detectTech of gqlFilters
detectTechFilters(a) ==
    LET pkgJson == a.pkg.st = "ok"
        fe == detectFrontendFromPkgFilters(a.pkg)
        hasTS1 == a.langs = "ts"
                  \/ (pkgJson /\ pkgHasAnyDep(a.pkg, {"typescript"}))
        hasReact1 == pkgJson /\ pkgHasAnyDep(a.pkg, ReactPackages)
        hasJest1 == pkgJson /\ fe.hasJest
        hasFrontendTests1 == pkgJson /\ fe.hasFrontendTests
        feLibs1 == IF pkgJson THEN fe.libs ELSE <<>>
        topics == IF a.topics.st = "ok" THEN a.topics.names ELSE {}
        hasReact2 == hasReact1 \/ topicsIncludeReact(topics)
        tsProbe == IF hasTS1 THEN "skip" ELSE tsconfigProbe(a)
        jestProbe == IF hasJest1 THEN "skip" ELSE jestConfigProbe(a)
        hasJest2 == hasJest1 \/ jestProbe = "found"
        feLibs2 == IF jestProbe = "found" /\ "jest" \notin Range(feLibs1)
                   THEN Append(feLibs1, "jest") ELSE feLibs1
    IN  IF a.pkg.st = "err" \/ tsProbe = "threw" \/ jestProbe = "threw"
        THEN Threw
        ELSE [NoTech EXCEPT !.hasTS = hasTS1 \/ tsProbe = "found",
                            !.hasReact = hasReact2,
                            !.hasJest = hasJest2,
                            !.hasFrontendTests = hasFrontendTests1 \/ hasJest2,
                            !.feLibs = feLibs2,
                            !.topics = topics]

\* the texts of test files in the model
RenderImport == "import { render } from '@testing-library/react'"
ScreenImport == "import { screen } from '@testing-library/react'"
PreactImport == "import { render } from 'preact'"
EnzymeImport == "import { shallow } from 'enzyme'"
PlainText == "export default {}"

\* item.name.match(/\.(test|spec)\.tsx?$/) on the file names of the model
nameMatches(name) ==
    name \in {"App.test.tsx", "App.spec.tsx", "util.test.ts", "util.spec.ts"}

\* content.includes('import { render }') && content.includes('@testing-library/react')
hasRenderImport(content) ==
    /\ content \in {RenderImport, PreactImport}
    /\ content \in {RenderImport, ScreenImport}

\* content.includes('enzyme') || content.includes('shallow') || content.includes('mount')
hasEnzymeImport(content) == content = EnzymeImport

\* the file branch of the loop of searchDirectoryForReactTests: the content
\* is requested for a matching name; a failed request is caught, an empty
\* content is skipped
fileIsReactTest(f) ==
    /\ nameMatches(f.name)
    /\ f.content \notin {"err", ""}
    /\ hasRenderImport(f.content) \/ hasEnzymeImport(f.content)

\* the names of the directories listed directly under basePath
subdirs(files, basePath) ==
    {f.dir[Len(basePath) + 1] :
        f \in {g \in files : /\ Len(g.dir) > Len(basePath)
                              /\ SubSeq(g.dir, 1, Len(basePath)) = basePath}}

\* a scan that does not descend into directories
searchDirectoryFlat(files, basePath) ==
    \E f \in files : f.dir = basePath /\ fileIsReactTest(f)

\* searchDirectoryForReactTests(owner, repo, contents, basePath): contents
\* is the listing of basePath; basePath.split('/').length is Len(basePath)
RECURSIVE searchDirectoryForReactTests(_, _)
searchDirectoryForReactTests(files, basePath) ==
    \/ \E f \in files : f.dir = basePath /\ fileIsReactTest(f)
    \/ \E d \in subdirs(files, basePath) :
          /\ d \notin {"node_modules", ".git"}
          /\ Len(basePath) < 3
          /\ searchDirectoryForReactTests(files, Append(basePath, d))

testPatterns == <<"src", "__tests__", "test", "tests">>

\* searchForTestFiles(owner, repo): a pattern that is no directory of the
\* repository is answered 404 and skipped
searchForTestFiles(files) ==
    \E i \in 1..Len(testPatterns) :
        /\ testPatterns[i] \in subdirs(files, <<>>)
        /\ searchDirectoryForReactTests(files, <<testPatterns[i]>>)

\* a final rule that takes the test runner alone for frontend tests
scanAndFinalRuleLoose(t, a) ==
    [t EXCEPT !.hasFrontendTests = t.hasReact /\ t.hasJest]

\* the end of detectTech of restSeq and restConc: the source scan, which runs
\* only with React and Jest found and no test library in the manifest, and
\* the final rule
scanAndFinalRule(t, a) ==
    LET found == /\ t.hasReact /\ t.hasJest /\ ~t.hasFrontendTestLibs
                 /\ searchForTestFiles(a.scan)
        hasFrontendTestLibs == t.hasFrontendTestLibs \/ found
    IN  [t EXCEPT !.hasFrontendTestLibs = hasFrontendTestLibs,
                  !.feLibs = IF found THEN Append(t.feLibs, "test-files")
                             ELSE t.feLibs,
                  !.hasFrontendTests = t.hasReact /\ t.hasJest
                                       /\ hasFrontendTestLibs]

\* detectTech of restSeq, and the REST fallback of detectTech of restConc
detectTechRest(a) ==
    LET pkgJson == a.pkg.st = "ok"
        fe == detectFrontendFromPkg(a.pkg)
        hasReactDeps == pkgJson /\ fe.hasReactDeps
        hasTS1 == a.langs = "ts"
                  \/ (pkgJson /\ pkgHasAnyDep(a.pkg, {"typescript"}))
        hasJest1 == pkgJson /\ fe.hasJest
        feLibs1 == IF pkgJson THEN fe.libs ELSE <<>>
        topics == IF a.topics.st = "ok" THEN a.topics.names ELSE {}
        hasReact2 == hasReactDeps \/ topicsIncludeReact(topics)
        tsProbe == IF hasTS1 THEN "skip" ELSE tsconfigProbe(a)
        jestProbe == IF hasJest1 THEN "skip" ELSE jestConfigProbe(a)
        feLibs2 == IF jestProbe = "found" /\ "jest" \notin Range(feLibs1)
                   THEN Append(feLibs1, "jest") ELSE feLibs1
    IN  IF a.pkg.st = "err" \/ tsProbe = "threw" \/ jestProbe = "threw"
        THEN Threw
        ELSE scanAndFinalRule(
                 [NoTech EXCEPT !.hasTS = hasTS1 \/ tsProbe = "found",
                                !.hasReact = hasReact2,
                                !.hasJest = hasJest1 \/ jestProbe = "found",
                                !.feLibs = feLibs2,
                                !.topics = topics,
                                !.hasReactDeps = hasReactDeps,
                                !.hasFrontendTestLibs =
                                    pkgJson /\ fe.hasFrontendTestLibs], a)

\* detectTech of restConc with the answer of getRepoInfoGraphQL: every blob
\* comes with the one answer, nothing is requested and nothing can throw
detectTechGraphQL(a) ==
    LET pkgJson == a.pkg.st = "ok"
        fe == detectFrontendFromPkg(a.pkg)
        hasReactDeps == pkgJson /\ fe.hasReactDeps
        hasTS1 == a.langs = "ts"
                  \/ (pkgJson /\ pkgHasAnyDep(a.pkg, {"typescript"}))
        hasJest1 == pkgJson /\ fe.hasJest
        feLibs1 == IF pkgJson THEN fe.libs ELSE <<>>
        topics == IF a.topics.st = "ok" THEN a.topics.names ELSE {}
        hasReact2 == hasReactDeps \/ topicsIncludeReact(topics)
        hasTsConfig == a.tsconfig = "present" \/ a.tsconfigBase = "present"
        hasJestConfig == \E i \in 1..Len(JestConfigCandidates) :
                             a.jestConfigs[i] = "present"
        jestByConfig == ~hasJest1 /\ hasJestConfig
        feLibs2 == IF jestByConfig /\ "jest" \notin Range(feLibs1)
                   THEN Append(feLibs1, "jest") ELSE feLibs1
    IN  scanAndFinalRule(
            [NoTech EXCEPT !.hasTS = hasTS1 \/ hasTsConfig,
                           !.hasReact = hasReact2,
                           !.hasJest = hasJest1 \/ jestByConfig,
                           !.feLibs = feLibs2,
                           !.topics = topics,
                           !.hasReactDeps = hasReactDeps,
                           !.hasFrontendTestLibs =
                               pkgJson /\ fe.hasFrontendTestLibs], a)

\* detectTech(owner, repo) of generation v, given the API's answers a
detectTech(v, a) ==
    CASE v \in {"gqlBasic", "gqlLimits"} -> detectTechBasic(a)
      [] v = "gqlFilters" -> detectTechFilters(a)
      [] v = "restSeq" -> detectTechRest(a)
      [] v = "restConc" -> IF a.gql = "ok" THEN detectTechGraphQL(a)
                           ELSE detectTechRest(a)

\* the class of a text: whether its lower-cased form contains a keyword of
\* COURSE_KEYWORDS or of BOILERPLATE_KEYWORDS
topicClass(t) ==
    CASE toLowerCase(t) = "tutorial" -> "course"
      [] toLowerCase(t) = "template" -> "boiler"
      [] OTHER -> "plain"

\* detectCourseOrBoilerplate(owner, repo, name, description, topics)
detectCourseOrBoilerplate(a, topics) ==
    LET isCourse == a.nameDesc = "course"
                    \/ \E t \in topics : topicClass(t) = "course"
        isBoilerOrTemplate == a.nameDesc = "boiler"
                              \/ \E t \in topics : topicClass(t) = "boiler"
        deep == ~isCourse /\ ~isBoilerOrTemplate /\ cfg.README_COURSE_CHECK
    IN  isCourse \/ isBoilerOrTemplate
        \/ (deep /\ a.readme \in {"course", "boiler"})

-----------------------------------------------------------------------------
(***************************************************************************)
(* Bounds of the model and constants of the program.                       *)
(***************************************************************************)
MaxRepos == 2        \* repository identities the search can return
MaxItems == 3        \* items on one search page
NumQueries == 2      \* length of QUERY_STRINGS / of buildQueries()
MaxPages == 2        \* pages the GraphQL search holds for one query
MaxCap == 2          \* largest MAX_QUALIFIED and MAX_ANALYZED tried
MaxLimit == 2        \* largest CONCURRENT_REPOS tried

MAX_RESULTS_PER_QUERY == 500
SEARCH_API_CAP == 1000
DEFAULT_BATCH_SIZE == 100
GRAPHQL_BATCH_SIZE == 50
MAX_PER_PAGE == 100

Repos == 1..MaxRepos
ItemSeqs == UNION {[1..n -> Repos] : n \in 0..MaxItems}
\* BATCH_SIZE values tried: the default and a larger one from the environment
BatchSizes == {DEFAULT_BATCH_SIZE, 4 * DEFAULT_BATCH_SIZE}
\* total_count values the REST search reports
TotalCounts == {150, 3 * SEARCH_API_CAP}

DefaultCfg == [MAX_QUALIFIED |-> MaxCap, MAX_ANALYZED |-> 0,
               REQUIRE_FRONTEND_TESTS |-> TRUE,
               EXCLUDE_COURSE_BOILERPLATE |-> TRUE,
               README_COURSE_CHECK |-> FALSE,
               BATCH_SIZE |-> DEFAULT_BATCH_SIZE,
               CONCURRENT_REPOS |-> 1]

\* the configurations generation v is run with. Only what its main() reads
\* varies: restSeq and restConc parse REQUIRE_FRONTEND_TESTS and never read
\* it, and the README check is varied by the detection harness. The limits
\* vary together under the default switches, the switches together under the
\* default limits.
LimitConfigs(v) ==
    {[DefaultCfg EXCEPT !.MAX_QUALIFIED = mq, !.MAX_ANALYZED = ma,
                        !.CONCURRENT_REPOS = cr] :
        mq \in (IF v \in FlagVariants THEN 1..MaxCap ELSE {MaxCap}),
        ma \in (IF v \in FlagVariants THEN 0..MaxCap ELSE {0}),
        cr \in (IF v = "restConc" THEN 1..MaxLimit ELSE {1})}

SwitchConfigs(v) ==
    {[DefaultCfg EXCEPT !.REQUIRE_FRONTEND_TESTS = rf,
                        !.EXCLUDE_COURSE_BOILERPLATE = ex,
                        !.BATCH_SIZE = bs] :
        rf \in (IF v = "gqlFilters" THEN BOOLEAN ELSE {TRUE}),
        ex \in (IF v \in FilterVariants THEN BOOLEAN ELSE {TRUE}),
        bs \in (IF v \in OffsetVariants THEN BatchSizes
                ELSE {DEFAULT_BATCH_SIZE})}

Configs(v) == LimitConfigs(v) \cup SwitchConfigs(v)

NoPkg == [st |-> "absent", deps |-> {}, dev |-> {}, scripts |-> {}]
NoAnswers == [gql |-> "fail", langs |-> "none", pkg |-> NoPkg,
              topics |-> [st |-> "ok", names |-> {}],
              tsconfig |-> "absent", tsconfigBase |-> "absent",
              jestConfigs |-> [i \in 1..Len(JestConfigCandidates) |-> "absent"],
              scan |-> {}, nameDesc |-> "plain", readme |-> "plain"]

\* a manifest with React, Jest and Testing Library
FullPkg == [st |-> "ok", deps |-> {"react"},
            dev |-> {"jest", "@testing-library/react"}, scripts |-> {}]

\* the manifests the driver is run with
DriverPkgs ==
    {[NoPkg EXCEPT !.st = "err"], NoPkg}
    \cup {[st |-> "ok", deps |-> d, dev |-> v, scripts |-> {}] :
            d \in SUBSET {"react"},
            v \in SUBSET {"jest", "@testing-library/react"}}

\* the API answers the driver is run with: a TypeScript repository with each
\* manifest, and the full manifest without TypeScript, with a course name,
\* and with the GraphQL answer
DriverAnswers(v) ==
    {[NoAnswers EXCEPT !.langs = "ts", !.pkg = p] : p \in DriverPkgs}
    \cup {[NoAnswers EXCEPT !.pkg = FullPkg]}
    \cup (IF v \in FilterVariants
          THEN {[NoAnswers EXCEPT !.langs = "ts", !.pkg = FullPkg,
                                  !.nameDesc = "course"]}
          ELSE {})
    \cup (IF v = "restConc"
          THEN {[NoAnswers EXCEPT !.gql = "ok", !.langs = "ts",
                                  !.pkg = FullPkg]}
          ELSE {})

-----------------------------------------------------------------------------
(***************************************************************************)
(* The per-repository decision.                                            *)
(***************************************************************************)

\* a filter that forgets the language signal
qualifiesWithoutTS(v, t, noise) ==
    CASE v \in {"gqlBasic", "gqlLimits"} -> t.hasReact /\ t.hasJest
      [] v = "gqlFilters" ->
            /\ ~(cfg.EXCLUDE_COURSE_BOILERPLATE /\ noise)
            /\ t.hasReact
            /\ ~(cfg.REQUIRE_FRONTEND_TESTS /\ ~t.hasFrontendTests)
      [] v \in {"restSeq", "restConc"} ->
            /\ ~(cfg.EXCLUDE_COURSE_BOILERPLATE /\ noise)
            /\ t.hasReact
            /\ t.hasFrontendTests

\* a filter that tests the noise flag only when exclusion is disabled
qualifiesInvertedSwitch(v, t, noise) ==
    CASE v \in {"gqlBasic", "gqlLimits"} ->
            t.hasTS /\ t.hasReact /\ t.hasJest
      [] v = "gqlFilters" ->
            /\ ~(~cfg.EXCLUDE_COURSE_BOILERPLATE /\ noise)
            /\ t.hasTS /\ t.hasReact
            /\ ~(cfg.REQUIRE_FRONTEND_TESTS /\ ~t.hasFrontendTests)
      [] v \in {"restSeq", "restConc"} ->
            /\ ~(~cfg.EXCLUDE_COURSE_BOILERPLATE /\ noise)
            /\ t.hasTS /\ t.hasReact
            /\ t.hasFrontendTests

\* the filters between detectTech and appendCsvRow: whether the repository
\* is kept, given the detection result and the noise classification
qualifies(v, t, noise) ==
    CASE v \in {"gqlBasic", "gqlLimits"} ->
            t.hasTS /\ t.hasReact /\ t.hasJest
      [] v = "gqlFilters" ->
            /\ ~(cfg.EXCLUDE_COURSE_BOILERPLATE /\ noise)
            /\ t.hasTS /\ t.hasReact
            /\ ~(cfg.REQUIRE_FRONTEND_TESTS /\ ~t.hasFrontendTests)
      [] v \in {"restSeq", "restConc"} ->
            /\ ~(cfg.EXCLUDE_COURSE_BOILERPLATE /\ noise)
            /\ t.hasTS /\ t.hasReact
            /\ t.hasFrontendTests

\* the body of the try block around one repository: <<>> when nothing is to
\* be appended (filtered out, or detectTech threw and the catch logged it),
\* else the identity that is appended (restConc: returned to the write loop)
analyse(v, id, a) ==
    LET t == detectTech(v, a)
        noise == IF v \in FilterVariants /\ ~t.threw
                 THEN detectCourseOrBoilerplate(a, t.topics) ELSE FALSE
    IN  IF t.threw \/ ~qualifies(v, t, noise) THEN <<>> ELSE <<id>>

\* a qualifiedLimitHit that lets one more row through
qualifiedLimitHitLate(n) == n > cfg.MAX_QUALIFIED

\* `totalQualified >= MAX_QUALIFIED`, tested after each appended row
qualifiedLimitHit(n) == n >= cfg.MAX_QUALIFIED

\* the MAX_ANALYZED test made after processed.add, with the new size
analyzedLimitHit(v, size) ==
    CASE v \in {"gqlLimits", "gqlFilters"} ->
            cfg.MAX_ANALYZED > 0 /\ size > cfg.MAX_ANALYZED
      [] v \in {"restSeq", "restConc"} ->
            cfg.MAX_ANALYZED > 0 /\ size >= cfg.MAX_ANALYZED
      [] OTHER -> FALSE

\* a maxPages that forgets the cap of the Search API
maxPagesUncapped(total_count) ==
    (total_count + cfg.BATCH_SIZE - 1) \div cfg.BATCH_SIZE

\* Math.ceil(Math.min(total_count, 1000) / BATCH_SIZE)
maxPages(total_count) ==
    LET m == IF total_count < SEARCH_API_CAP THEN total_count ELSE SEARCH_API_CAP
    IN  (m + cfg.BATCH_SIZE - 1) \div cfg.BATCH_SIZE

\* the condition of the while loop over the pages of one query
whileCondition ==
    IF variant = "gqlBasic" THEN foundThisQuery < MAX_RESULTS_PER_QUERY
    ELSE ~reachedLimit /\ ~stopRequested

\* `if (reachedLimit || stopRequested) break` of the generations with flags
flagBreak(limit) == variant \in FlagVariants /\ (limit \/ stopRequested)

-----------------------------------------------------------------------------
(***************************************************************************)
(* ConcurrencyLimiter.  A limiter state L holds running, queue and tasks,  *)
(* and the `processed` set and detection count the task bodies touch: the  *)
(* head of processRepository (the has/add of `processed`) runs inside      *)
(* tryNext, synchronously, up to the first await of detectTech.            *)
(* A task is "queued", then "running" (in flight), then "settled" (its     *)
(* promise has settled, the finally callback is pending), then "done".     *)
(***************************************************************************)

\* an early return that lets one task too many start
tryNextReturnsLate(L) == L.running > cfg.CONCURRENT_REPOS \/ Len(L.queue) = 0

\* the early return of tryNext
tryNextReturns(L) == L.running >= cfg.CONCURRENT_REPOS \/ Len(L.queue) = 0

\* a tryNext whose task never records the identity in `processed`
tryNextWithoutAdd(L) ==
    IF L.running >= cfg.CONCURRENT_REPOS \/ Len(L.queue) = 0 THEN L
    ELSE LET t == Head(L.queue)
             id == items[t]
             dup == id \in L.processed
         IN  [L EXCEPT !.running = @ + 1,
                       !.queue = Tail(@),
                       !.tasks[t].st = IF dup THEN "settled" ELSE "running",
                       !.detectCount[id] = IF dup THEN @ ELSE @ + 1]

\* a tryNext that takes the task added last
tryNextLast(L) ==
    IF tryNextReturns(L) THEN L
    ELSE LET t == L.queue[Len(L.queue)]
             id == items[t]
             dup == id \in L.processed
         IN  [running |-> L.running + 1,
              queue |-> SubSeq(L.queue, 1, Len(L.queue) - 1),
              tasks |-> [L.tasks EXCEPT ![t].st =
                            IF dup THEN "settled" ELSE "running"],
              processed |-> L.processed \cup {id},
              detectCount |-> IF dup THEN L.detectCount
                              ELSE [L.detectCount EXCEPT ![id] = @ + 1]]

\* ConcurrencyLimiter.tryNext, with the synchronous head of the task
tryNext(L) ==
    IF tryNextReturns(L) THEN L
    ELSE LET t == Head(L.queue)
             id == items[t]
             dup == id \in L.processed
         IN  [running |-> L.running + 1,
              queue |-> Tail(L.queue),
              tasks |-> [L.tasks EXCEPT ![t].st =
                            IF dup THEN "settled" ELSE "running"],
              processed |-> L.processed \cup {id},
              detectCount |-> IF dup THEN L.detectCount
                              ELSE [L.detectCount EXCEPT ![id] = @ + 1]]

\* ConcurrencyLimiter.add
add(L, t) == tryNext([L EXCEPT !.queue = Append(@, t)])

\* a finally callback that frees the slot and starts nothing
finallyFreesOnly(L, t) ==
    [L EXCEPT !.running = @ - 1, !.tasks[t].st = "done"]

\* `.finally(() => { this.running--; this.tryNext(); })` of task t
finallyCallback(L, t) ==
    tryNext([L EXCEPT !.running = @ - 1, !.tasks[t].st = "done"])

\* items.map((item) => limiter.add(...)), from item t on
RECURSIVE addAll(_, _)
addAll(L, t) == IF t > Len(items) THEN L ELSE addAll(add(L, t), t + 1)

\* the loop over validResults that writes the rows of a page: W holds rows,
\* totalQualified and reachedLimit; rs are the results not yet visited
RECURSIVE writeResults(_, _)
writeResults(W, rs) ==
    IF rs = <<>> THEN W
    ELSE IF ~W.reachedLimit /\ ~stopRequested
         THEN LET n == W.totalQualified + 1
              IN  IF qualifiedLimitHit(n)
                  THEN [rows |-> Append(W.rows, Head(rs)), totalQualified |-> n,
                        reachedLimit |-> TRUE]
                  ELSE writeResults([rows |-> Append(W.rows, Head(rs)),
                                     totalQualified |-> n,
                                     reachedLimit |-> FALSE], Tail(rs))
         ELSE writeResults(W, Tail(rs))

\* the non-null results of tasks k.. that settled ahead of an earlier one
\* (e = TRUE), or of the others
RECURSIVE ConcatOf(_, _, _)
ConcatOf(ts, k, e) ==
    IF k > Len(items) THEN <<>>
    ELSE (IF ts[k].early = e THEN ts[k].res ELSE <<>>) \o ConcatOf(ts, k + 1, e)

\* results in the order the tasks completed
ConcatAsCompleted(ts, k) == ConcatOf(ts, k, TRUE) \o ConcatOf(ts, k, FALSE)

RECURSIVE Concat(_, _)
\* `await Promise.all(tasks)` and `.filter((r) => r !== null)`: the non-null
\* results of tasks k.. in item order
Concat(ts, k) == IF k > Len(items) THEN <<>> ELSE ts[k].res \o Concat(ts, k + 1)

-----------------------------------------------------------------------------
(***************************************************************************)
(* Start-up and the output file: the module-level code that picks the      *)
(* token, and the use main() makes of the CSV file.  A line of the file is *)
(* the header line or the line of a row.                                   *)
(***************************************************************************)
MaxAppends == 2   \* rows appended in one run
MaxHttp == 2      \* requests issued in one run

\* the environment variables read for the token, in the order of the `||`
\* chain; a variable is unset (<<>>), empty, or holds its own secret
EnvNames == <<"GITHUB_TOKEN", "PAT", "GH_TOKEN">>

Environments ==
    [Range(EnvNames) -> {<<>>, <<"">>}] \cup
    {[n \in Range(EnvNames) |-> IF n \in S THEN <<"secret of " \o n>> ELSE v] :
        S \in SUBSET Range(EnvNames) \ {{}}, v \in {<<>>, <<"">>}}

\* a truthiness that takes the empty string for a value
truthyDefined(v) == v # <<>>

\* JavaScript truthiness of process.env.X: undefined and '' are falsy
truthy(v) == v # <<>> /\ v[1] # ""

\* a || b
or(a, b) == IF truthy(a) THEN a ELSE b

\* process.env.GITHUB_TOKEN || process.env.PAT || process.env.GH_TOKEN
selectToken(e) == or(or(e[EnvNames[1]], e[EnvNames[2]]), e[EnvNames[3]])

Header == [kind |-> "header", repo |-> 0]

\* the line appendCsvRow formats for a repository
csvLine(r) == [kind |-> "row", repo |-> r]

NoFile == [exists |-> FALSE, lines |-> <<>>]

\* the CSV file before the run: absent, empty, or left by earlier runs
InitialFiles ==
    {NoFile} \cup
    {[exists |-> TRUE, lines |-> l] :
        l \in {<<>>, <<Header>>, <<Header, csvLine(1)>>,
               <<Header, csvLine(1), csvLine(1)>>}}

\* a start-up that always writes the header
writeCsvHeaderAlways(f) == [exists |-> TRUE, lines |-> <<Header>>]

\* writeCsvHeaderIfNeeded(): writeFileSync only when the file is absent
writeCsvHeaderIfNeeded(f) ==
    IF ~f.exists THEN [exists |-> TRUE, lines |-> <<Header>>] ELSE f

\* appendCsvRow(row): appendFileSync
appendCsvRow(f, r) == [exists |-> TRUE, lines |-> Append(f.lines, csvLine(r))]

NoiseIdle == npc = "off" /\ nin = <<>> /\ nout = FALSE

LayerIdle ==
    /\ lpc = "off" /\ la = NoAnswers /\ sig = NoTech
    /\ runs = <<>> /\ plan = <<>> /\ lreq = <<>>

QueryIdle == bpc = "off" /\ bin = <<>> /\ queries = <<>>

NoRequest == [kind |-> "none", path |-> <<>>]

ScanIdle ==
    /\ kpc = "off" /\ ksig = <<>> /\ kpat = 1 /\ kstack = <<>>
    /\ kfound = FALSE /\ klast = NoRequest /\ nscan = 0 /\ kmatched = FALSE

ThrottleIdle == tpc = "off" /\ tres = <<>> /\ tslept = <<>>

HarnessIdle ==
    NoiseIdle /\ LayerIdle /\ QueryIdle /\ ScanIdle /\ ThrottleIdle

StartupIdle ==
    /\ spc = "off"
    /\ env = [n \in Range(EnvNames) |-> <<>>]
    /\ GITHUB_TOKEN = <<>>
    /\ exitCode = <<>>
    /\ dirExists = FALSE
    /\ csv = NoFile
    /\ csvAtStart = NoFile
    /\ bearers = <<>>

-----------------------------------------------------------------------------
(***************************************************************************)
(* main(): the run of one script.                                          *)
(***************************************************************************)
NoResult == [total_count |-> 0, hasNextPage |-> FALSE, endCursor |-> 0]

\* the pages the search API can answer with: the GraphQL search holds at
\* most MaxPages pages for a query, and its cursor names the page it ends
SearchPages ==
    IF variant \in CursorVariants
    THEN {[total_count |-> 0, hasNextPage |-> h, endCursor |-> fetched] :
            h \in (IF fetched >= MaxPages THEN {FALSE} ELSE BOOLEAN)}
    ELSE {[total_count |-> n, hasNextPage |-> FALSE, endCursor |-> 0] :
            n \in TotalCounts}

\* the state of main() at its first statement's locals
DriverStart ==
    /\ qi = 1
    /\ page = 1
    /\ after = 0
    /\ fetched = 0
    /\ result = NoResult
    /\ items = <<>>
    /\ idx = 1
    /\ processed = {}
    /\ rows = <<>>
    /\ totalQualified = 0
    /\ foundThisQuery = 0
    /\ reachedLimit = FALSE
    /\ stopRequested = FALSE
    /\ running = 0
    /\ queue = <<>>
    /\ tasks = <<>>
    /\ detectCount = [r \in Repos |-> 0]

DriverInit ==
    /\ variant \in Variants
    /\ cfg \in Configs(variant)
    /\ pc = "query"
    /\ DriverStart

\* the harnesses of the detector and of the HTTP client run no main()
DriverOff == pc = "off" /\ DriverStart

\* a settled promise whose callbacks have not run yet: its microtasks run
\* before any timer, signal or I/O callback
pendingMicrotasks == {t \in DOMAIN tasks : tasks[t].st = "settled"}

DetectIdle ==
    /\ dpc = "off" /\ da = NoAnswers /\ tech = NoTech
    /\ courseFlag = FALSE /\ kept = FALSE

\* a response: status, the x-ratelimit-remaining and x-ratelimit-reset headers
\* (<<>> when absent, else the number they spell), and whether a GraphQL
\* body carries `errors`
NoResponse ==
    [status |-> 0, remaining |-> <<>>, reset |-> <<>>, errors |-> FALSE,
     body |-> 0]

\* no Error thrown
NoError == [status |-> 0, statusText |-> "", body |-> 0]

ClientIdle ==
    /\ now = 0 /\ cpc = "off" /\ ckind = "GET" /\ resp = NoResponse
    /\ wakeAt = 0 /\ nreq = 0 /\ outcome = "none"
    /\ sentAt = 0 /\ nlimited = 0 /\ error = NoError

Init == DriverInit /\ DetectIdle /\ ClientIdle /\ StartupIdle /\ HarnessIdle

\* a break that stays in the query it left
breakSameQuery ==
    /\ pc' = "query"
    /\ qi' = qi
    /\ page' = 1
    /\ after' = 0
    /\ fetched' = 0
    /\ result' = NoResult
    /\ items' = <<>>
    /\ idx' = 1

\* leaving the while loop: its locals die, then the code after it
break ==
    /\ pc' = "query"
    /\ qi' = qi + 1
    /\ page' = 1
    /\ after' = 0
    /\ fetched' = 0
    /\ result' = NoResult
    /\ items' = <<>>
    /\ idx' = 1

\* the handlers of SIGTERM and SIGINT
Signal ==
    /\ variant \in FlagVariants
    /\ pc \notin {"off", "caught", "done"}
    /\ pendingMicrotasks = {}
    /\ ~stopRequested
    /\ stopRequested' = TRUE
    /\ UNCHANGED <<detectVars, clientVars, startVars, harnessVars>>
    /\ UNCHANGED <<variant, cfg, pc, qi, page, after, fetched, result, items,
                   idx, processed, rows, totalQualified, foundThisQuery,
                   reachedLimit, running, queue, tasks, detectCount>>

\* the head of the for loop over the queries
NextQuery ==
    /\ pc = "query"
    /\ IF qi > NumQueries \/ flagBreak(reachedLimit)
       THEN pc' = "done"
       ELSE pc' = "page"
    /\ foundThisQuery' = 0
    /\ UNCHANGED <<detectVars, clientVars, startVars, harnessVars>>
    /\ UNCHANGED <<variant, cfg, qi, page, after, fetched, result, items, idx,
                   processed, rows, totalQualified, reachedLimit,
                   stopRequested, running, queue, tasks, detectCount>>

\* the while condition fails
LeaveLoop ==
    /\ pc = "page"
    /\ ~whileCondition
    /\ break
    /\ UNCHANGED <<detectVars, clientVars, startVars, harnessVars>>
    /\ UNCHANGED <<variant, cfg, processed, rows, totalQualified,
                   foundThisQuery, reachedLimit, stopRequested, running,
                   queue, tasks, detectCount>>

\* the page size that a search request carries: `first: BATCH_SIZE` of the
\* GraphQL search, a constant of the script, and `per_page=${perPage}` of
\* searchReposREST, the BATCH_SIZE parsed from the environment
perPage(v) == IF v \in OffsetVariants THEN cfg.BATCH_SIZE ELSE GRAPHQL_BATCH_SIZE

\* the while condition holds: the search request of the page is issued
\* (ghGraphQL(SEARCH_REPOS, vars) / searchReposREST(q, page, BATCH_SIZE))
SendSearch ==
    /\ pc = "page"
    /\ whileCondition
    /\ pc' = "fetching"
    /\ fetched' = fetched + 1
    /\ UNCHANGED <<detectVars, clientVars, startVars, harnessVars>>
    /\ UNCHANGED <<variant, cfg, qi, page, after, result, items, idx, processed,
                   rows, totalQualified, foundThisQuery, reachedLimit,
                   stopRequested, running, queue, tasks, detectCount>>

\* the search request throws, after the client's own retries
SearchFails ==
    /\ pc = "fetching"
    /\ pc' = "caught"
    /\ UNCHANGED <<detectVars, clientVars, startVars, harnessVars>>
    /\ UNCHANGED <<variant, cfg, qi, page, after, fetched, result, items, idx,
                   processed, rows, totalQualified, foundThisQuery,
                   reachedLimit, stopRequested, running, queue, tasks,
                   detectCount>>

\* a catch block that lets the error end the whole run
SearchCatchEndsRun ==
    /\ pc = "caught"
    /\ pc' = "done"
    /\ UNCHANGED <<detectVars, clientVars, startVars, harnessVars>>
    /\ UNCHANGED <<variant, cfg, qi, page, after, fetched, result, items, idx,
                   processed, rows, totalQualified, foundThisQuery,
                   reachedLimit, stopRequested, running, queue, tasks,
                   detectCount>>

\* the catch block around the search request: log the error, break
SearchCatch ==
    /\ pc = "caught"
    /\ break
    /\ UNCHANGED <<detectVars, clientVars, startVars, harnessVars>>
    /\ UNCHANGED <<variant, cfg, processed, rows, totalQualified,
                   foundThisQuery, reachedLimit, stopRequested, running,
                   queue, tasks, detectCount>>

\* the search request is answered with a page
ReceivePage ==
    /\ pc = "fetching"
    /\ \E r \in SearchPages, its \in ItemSeqs :
          IF its = <<>>
          THEN break
          ELSE /\ result' = r
               /\ items' = its
               /\ pc' = "items"
               /\ UNCHANGED <<qi, page, after, fetched, idx>>
    /\ UNCHANGED <<detectVars, clientVars, startVars, harnessVars>>
    /\ UNCHANGED <<variant, cfg, processed, rows, totalQualified,
                   foundThisQuery, reachedLimit, stopRequested, running,
                   queue, tasks, detectCount>>

\* the head of the for loop over the items of a page, up to the await of
\* detectTech
StartItem ==
    /\ pc = "items"
    /\ variant # "restConc"
    /\ IF idx > Len(items) \/ flagBreak(reachedLimit)
       THEN /\ pc' = "afterItems"
            /\ items' = <<>>
            /\ idx' = 1
            /\ UNCHANGED <<processed, reachedLimit, detectCount>>
       ELSE LET id == items[idx]
            IN  IF id \in processed
                THEN /\ idx' = idx + 1
                     /\ UNCHANGED <<pc, items, processed, reachedLimit,
                                    detectCount>>
                ELSE /\ processed' = processed \cup {id}
                     /\ IF analyzedLimitHit(variant, Cardinality(processed'))
                        THEN /\ reachedLimit' = TRUE
                             /\ pc' = "afterItems"
                             /\ items' = <<>>
                             /\ idx' = 1
                             /\ UNCHANGED detectCount
                        ELSE /\ detectCount' = [detectCount EXCEPT ![id] = @ + 1]
                             /\ pc' = "analyzing"
                             /\ UNCHANGED <<items, idx, reachedLimit>>
    /\ UNCHANGED <<detectVars, clientVars, startVars, harnessVars>>
    /\ UNCHANGED <<variant, cfg, qi, page, after, fetched, result, rows,
                   totalQualified, foundThisQuery, stopRequested, running,
                   queue, tasks>>

\* detectTech and the filters answer; the row is appended
FinishItem ==
    /\ pc = "analyzing"
    /\ \E a \in DriverAnswers(variant) :
          LET r == analyse(variant, items[idx], a)
          IN  IF r = <<>>
              THEN /\ idx' = idx + 1
                   /\ pc' = "items"
                   /\ UNCHANGED <<items, rows, totalQualified, foundThisQuery,
                                  reachedLimit>>
              ELSE /\ rows' = rows \o r
                   /\ totalQualified' = totalQualified + 1
                   /\ foundThisQuery' = IF variant = "gqlBasic"
                                        THEN foundThisQuery + 1
                                        ELSE foundThisQuery
                   /\ IF variant \in FlagVariants
                         /\ qualifiedLimitHit(totalQualified')
                      THEN /\ reachedLimit' = TRUE
                           /\ pc' = "afterItems"
                           /\ items' = <<>>
                           /\ idx' = 1
                      ELSE /\ pc' = "items"
                           /\ idx' = idx + 1
                           /\ UNCHANGED <<items, reachedLimit>>
    /\ UNCHANGED <<detectVars, clientVars, startVars, harnessVars>>
    /\ UNCHANGED <<variant, cfg, qi, page, after, fetched, result, processed,
                   stopRequested, running, queue, tasks, detectCount>>

\* a cursor that stays where the query began
sameCursor(r) == after

\* after = data.search.pageInfo.endCursor
nextCursor(r) == r.endCursor

\* the code between the loop over the items and the next page
AfterItems ==
    /\ pc = "afterItems"
    /\ IF flagBreak(reachedLimit)
       THEN break
       ELSE IF variant \in CursorVariants
            THEN IF ~result.hasNextPage
                 THEN break
                 ELSE /\ after' = nextCursor(result)
                      /\ pc' = "page"
                      /\ UNCHANGED <<qi, page, fetched, result, items, idx>>
            ELSE IF page >= maxPages(result.total_count)
                 THEN break
                 ELSE /\ page' = page + 1
                      /\ pc' = "page"
                      /\ UNCHANGED <<qi, after, fetched, result, items, idx>>
    /\ UNCHANGED <<detectVars, clientVars, startVars, harnessVars>>
    /\ UNCHANGED <<variant, cfg, processed, rows, totalQualified,
                   foundThisQuery, reachedLimit, stopRequested, running,
                   queue, tasks, detectCount>>

\* restConc: items.map((item) => limiter.add(...)), one synchronous run
AddTasks ==
    /\ pc = "items"
    /\ variant = "restConc"
    /\ LET L == addAll([running |-> running, queue |-> queue,
                        tasks |-> [t \in 1..Len(items) |->
                                      [st |-> "queued", res |-> <<>>,
                                       early |-> FALSE]],
                        processed |-> processed,
                        detectCount |-> detectCount], 1)
       IN  /\ running' = L.running
           /\ queue' = L.queue
           /\ tasks' = L.tasks
           /\ processed' = L.processed
           /\ detectCount' = L.detectCount
    /\ pc' = "wait"
    /\ UNCHANGED <<detectVars, clientVars, startVars, harnessVars>>
    /\ UNCHANGED <<variant, cfg, qi, page, after, fetched, result, items, idx,
                   rows, totalQualified, foundThisQuery, reachedLimit,
                   stopRequested>>

\* history: task t settles while a task of an earlier item is still running
overtakes(t) == \E u \in 1..(t - 1) : tasks[u].st = "running"

\* restConc: processRepository of task t returns: its promise settles
TaskSettle(t) ==
    /\ pc = "wait"
    /\ pendingMicrotasks = {}
    /\ tasks[t].st = "running"
    /\ \E a \in DriverAnswers(variant) :
          tasks' = [tasks EXCEPT ![t] = [st |-> "settled",
                                         res |-> analyse(variant, items[t], a),
                                         early |-> overtakes(t)]]
    /\ UNCHANGED <<detectVars, clientVars, startVars, harnessVars>>
    /\ UNCHANGED <<variant, cfg, pc, qi, page, after, fetched, result, items,
                   idx, processed, rows, totalQualified, foundThisQuery,
                   reachedLimit, stopRequested, running, queue, detectCount>>

\* restConc: the finally callback of task t: running--, tryNext(); the
\* callbacks run in the order their promises settled, which is task order
TaskFinally(t) ==
    /\ pc = "wait"
    /\ tasks[t].st = "settled"
    /\ t = Min(pendingMicrotasks)
    /\ LET L == finallyCallback([running |-> running, queue |-> queue,
                                 tasks |-> tasks, processed |-> processed,
                                 detectCount |-> detectCount], t)
       IN  /\ running' = L.running
           /\ queue' = L.queue
           /\ tasks' = L.tasks
           /\ processed' = L.processed
           /\ detectCount' = L.detectCount
    /\ UNCHANGED <<detectVars, clientVars, startVars, harnessVars>>
    /\ UNCHANGED <<variant, cfg, pc, qi, page, after, fetched, result, items,
                   idx, rows, totalQualified, foundThisQuery, reachedLimit,
                   stopRequested>>

\* a wait that ends with the first task that has settled
promiseAny(ts) == \E t \in DOMAIN ts : ts[t].st = "done"

\* `await Promise.all(tasks)` goes on: every promise of the page is fulfilled
promiseAll(ts) == \A t \in DOMAIN ts : ts[t].st = "done"

\* restConc: Promise.all(tasks) has resolved: the rows of the page are
\* written, then the limits and the page ceiling are tested
WriteResults ==
    /\ pc = "wait"
    /\ promiseAll(tasks)
    /\ LET W == writeResults([rows |-> rows, totalQualified |-> totalQualified,
                              reachedLimit |-> reachedLimit], Concat(tasks, 1))
       IN  /\ rows' = W.rows
           /\ totalQualified' = W.totalQualified
           /\ IF W.reachedLimit \/ stopRequested
              THEN reachedLimit' = W.reachedLimit /\ break
              ELSE IF analyzedLimitHit(variant, Cardinality(processed))
                   THEN reachedLimit' = TRUE /\ break
                   ELSE /\ reachedLimit' = FALSE
                        /\ IF page >= maxPages(result.total_count)
                           THEN break
                           ELSE /\ pc' = "page"
                                /\ page' = page + 1
                                /\ items' = <<>>
                                /\ UNCHANGED <<qi, after, fetched, result, idx>>
    /\ tasks' = <<>>
    /\ UNCHANGED <<detectVars, clientVars, startVars, harnessVars>>
    /\ UNCHANGED <<variant, cfg, processed, foundThisQuery, stopRequested,
                   running, queue, detectCount>>

Next ==
    \/ Signal
    \/ NextQuery
    \/ LeaveLoop
    \/ SendSearch
    \/ SearchFails
    \/ SearchCatch
    \/ ReceivePage
    \/ StartItem
    \/ FinishItem
    \/ AfterItems
    \/ AddTasks
    \/ \E t \in DOMAIN tasks : TaskSettle(t)
    \/ \E t \in DOMAIN tasks : TaskFinally(t)
    \/ WriteResults

Spec == Init /\ [][Next]_vars

-----------------------------------------------------------------------------
(***************************************************************************)
(* One analysis: the try block around one repository, from the call of     *)
(* detectTech to appendCsvRow (restConc: to the return of                  *)
(* processRepository, whose non-null value the write loop appends), for    *)
(* every generation, every setting of the switches and a range of answers  *)
(* of the API.                                                             *)
(***************************************************************************)

\* the manifests one analysis is run with
AnalysisPkgs ==
    {[NoPkg EXCEPT !.st = st] : st \in {"err", "bad", "absent"}}
    \cup {[st |-> "ok", deps |-> d, dev |-> v, scripts |-> {}] :
            d \in {{}, {"react"}, {"react", "typescript"}},
            v \in {{}, {"jest"}, {"@testing-library/react"},
                   {"jest", "@testing-library/react"}, {"jest", "enzyme"}}}
    \cup {[st |-> "ok", deps |-> {"react-dom"}, dev |-> {},
           scripts |-> {"jest --coverage"}],
          [st |-> "ok", deps |-> {"react-dom"},
           dev |-> {"@testing-library/user-event"},
           scripts |-> {"react-scripts test --env=jest"}]}

\* the answers to the jest.config.* requests one analysis is run with
AnalysisJestConfigs ==
    {[i \in 1..Len(JestConfigCandidates) |-> "absent"],
     [i \in 1..Len(JestConfigCandidates) |-> IF i = 4 THEN "present" ELSE "absent"],
     [i \in 1..Len(JestConfigCandidates) |-> IF i = 2 THEN "err" ELSE "absent"]}

\* the repository layouts one analysis is run with: no test file; an enzyme
\* test in src; a test file in the root directory; one four directories
\* deep; one three directories deep; files the scan passes over
AnalysisLayouts ==
    {{},
     {[dir |-> <<"src">>, name |-> "util.spec.ts", content |-> EnzymeImport]},
     {[dir |-> <<>>, name |-> "App.test.tsx", content |-> RenderImport]},
     {[dir |-> <<"src", "app", "ui", "forms">>, name |-> "App.test.tsx",
       content |-> RenderImport]},
     {[dir |-> <<"tests", "unit", "ui">>, name |-> "App.test.tsx",
       content |-> RenderImport]},
     {[dir |-> <<"src">>, name |-> "App.tsx", content |-> RenderImport],
      [dir |-> <<"src">>, name |-> "App.spec.tsx", content |-> "err"],
      [dir |-> <<"test">>, name |-> "util.test.ts", content |-> PreactImport],
      [dir |-> <<"test">>, name |-> "App.spec.tsx", content |-> ScreenImport],
      [dir |-> <<"test">>, name |-> "util.spec.ts", content |-> PlainText],
      [dir |-> <<"src", "node_modules">>, name |-> "App.test.tsx",
       content |-> RenderImport]}}

\* the API answers one analysis is run with
AnalysisAnswers(v) ==
    {[NoAnswers EXCEPT !.gql = g, !.langs = l, !.pkg = p, !.topics = tp,
                       !.tsconfig = tc[1], !.tsconfigBase = tc[2],
                       !.jestConfigs = jc, !.scan = sc] :
        g \in (IF v = "restConc" THEN {"ok", "fail"} ELSE {"fail"}),
        l \in {"ts", "none", "err"},
        p \in AnalysisPkgs,
        tp \in {[st |-> "ok", names |-> {}], [st |-> "ok", names |-> {"React"}],
                [st |-> "ok", names |-> {"Tutorial"}],
                [st |-> "err", names |-> {}]},
        tc \in {<<"absent", "absent">>, <<"absent", "present">>,
                <<"err", "absent">>},
        jc \in AnalysisJestConfigs,
        sc \in (IF v \in ScanVariants THEN AnalysisLayouts ELSE {{}})}

\* the switches one analysis is run with
AnalysisConfigs(v) ==
    {[DefaultCfg EXCEPT !.REQUIRE_FRONTEND_TESTS = rf,
                        !.EXCLUDE_COURSE_BOILERPLATE = ex,
                        !.README_COURSE_CHECK = rc] :
        rf \in (IF v \in FilterVariants THEN BOOLEAN ELSE {TRUE}),
        ex \in (IF v \in FilterVariants THEN BOOLEAN ELSE {TRUE}),
        rc \in (IF v \in FilterVariants THEN BOOLEAN ELSE {FALSE})}

InitAnalysis ==
    /\ variant \in Variants
    /\ cfg \in AnalysisConfigs(variant)
    /\ DriverOff
    /\ ClientIdle
    /\ StartupIdle
    /\ HarnessIdle
    /\ dpc = "detect"
    /\ da \in AnalysisAnswers(variant)
    /\ tech = NoTech
    /\ courseFlag = FALSE
    /\ kept = FALSE

\* `const tech = await detectTech(owner, repo)`: the answers are consumed; a
\* rejection lands in the catch of the try block, which logs it
Detect ==
    /\ dpc = "detect"
    /\ tech' = detectTech(variant, da)
    /\ da' = NoAnswers
    /\ dpc' = IF tech'.threw THEN "caught"
              ELSE IF variant \in FilterVariants THEN "classify"
              ELSE "decide"
    /\ UNCHANGED <<courseFlag, kept>>
    /\ UNCHANGED <<driverVars, clientVars, startVars, harnessVars>>

\* `const courseFlag = await detectCourseOrBoilerplate(...)`, for any name,
\* description and README of the repository
Classify ==
    /\ dpc = "classify"
    /\ \E n \in {"plain", "course", "boiler"},
          r \in {"plain", "course", "boiler", "err"} :
          courseFlag' = detectCourseOrBoilerplate(
                            [NoAnswers EXCEPT !.nameDesc = n, !.readme = r],
                            tech.topics)
    /\ dpc' = "decide"
    /\ UNCHANGED <<da, tech, kept>>
    /\ UNCHANGED <<driverVars, clientVars, startVars, harnessVars>>

\* the filters, then appendCsvRow (restConc: `return repoData`)
Decide ==
    /\ dpc = "decide"
    /\ kept' = qualifies(variant, tech, courseFlag)
    /\ dpc' = "done"
    /\ UNCHANGED <<da, tech, courseFlag>>
    /\ UNCHANGED <<driverVars, clientVars, startVars, harnessVars>>

NextAnalysis ==
    \/ Detect
    \/ Classify
    \/ Decide

SpecAnalysis == InitAnalysis /\ [][NextAnalysis]_vars

-----------------------------------------------------------------------------
(***************************************************************************)
(* One classification: detectCourseOrBoilerplate on texts.  A text is the  *)
(* sequence of its characters; an absent (null, undefined) text and the    *)
(* empty string are both the empty sequence, as `x || ''` makes them.      *)
(***************************************************************************)
README_SLICE == 4000

UpperCase == <<"A", "B", "C", "D", "E", "F", "G", "H", "I", "J", "K", "L", "M", "N", "O", "P", "Q", "R", "S", "T", "U", "V", "W", "X", "Y", "Z">>
LowerCase == <<"a", "b", "c", "d", "e", "f", "g", "h", "i", "j", "k", "l", "m", "n", "o", "p", "q", "r", "s", "t", "u", "v", "w", "x", "y", "z">>

\* String.prototype.toLowerCase
toLowerCaseChar(c) ==
    IF \E i \in 1..Len(UpperCase) : UpperCase[i] = c
    THEN LowerCase[CHOOSE i \in 1..Len(UpperCase) : UpperCase[i] = c]
    ELSE c

toLowerCaseText(t) == [i \in 1..Len(t) |-> toLowerCaseChar(t[i])]

\* String.prototype.includes
includes(s, k) ==
    \E i \in 0..(Len(s) - Len(k)) :
        /\ k # <<>> => s[i + 1] = k[1]
        /\ SubSeq(s, i + 1, i + Len(k)) = k

\* String.prototype.trim
RECURSIVE trim(_)
trim(t) ==
    IF t = <<>> THEN t
    ELSE IF Head(t) = " " THEN trim(Tail(t))
    ELSE IF t[Len(t)] = " " THEN trim(SubSeq(t, 1, Len(t) - 1))
    ELSE t

\* String.prototype.split(',')
RECURSIVE split(_)
split(t) ==
    IF \E i \in 1..Len(t) : t[i] = ","
    THEN LET i == CHOOSE j \in 1..Len(t) :
                     t[j] = "," /\ \A h \in 1..(j - 1) : t[h] # ","
         IN  <<SubSeq(t, 1, i - 1)>> \o split(SubSeq(t, i + 1, Len(t)))
    ELSE <<t>>

\* Array.prototype.join(' ')
RECURSIVE join(_)
join(ts) ==
    IF ts = <<>> THEN <<>>
    ELSE IF Len(ts) = 1 THEN ts[1]
    ELSE ts[1] \o <<" ">> \o join(Tail(ts))

\* .filter(Boolean) on an array of strings
RECURSIVE filterNonEmpty(_)
filterNonEmpty(ts) ==
    IF ts = <<>> THEN <<>>
    ELSE (IF ts[1] = <<>> THEN <<>> ELSE <<ts[1]>>) \o filterNonEmpty(Tail(ts))

COURSE_KEYWORDS_DEFAULT ==
    <<<<"c", "u", "r", "s", "o">>,
        <<"c", "o", "u", "r", "s", "e">>,
        <<"u", "d", "e", "m", "y">>,
        <<"a", "l", "u", "r", "a">>,
        <<"r", "o", "c", "k", "e", "t", "s", "e", "a", "t">>,
        <<"b", "o", "o", "t", "c", "a", "m", "p">>,
        <<"t", "r", "e", "i", "n", "a", "m", "e", "n", "t", "o">>,
        <<"t", "u", "t", "o", "r", "i", "a", "l">>,
        <<"a", "u", "l", "a">>,
        <<"a", "u", "l", "a", "s">>,
        <<"e", "x", "e", "r", "c", "i", "c", "i", "o">>,
        <<"e", "x", "e", "r", "c", "í", "c", "i", "o">>,
        <<"e", "x", "e", "r", "c", "i", "c", "i", "o", "s">>,
        <<"e", "x", "e", "r", "c", "í", "c", "i", "o", "s">>,
        <<"l", "e", "a", "r", "n">>,
        <<"l", "e", "a", "r", "n", "i", "n", "g">>,
        <<"e", "d", "u", "c", "a", "t", "i", "o", "n">>,
        <<"f", "o", "r", "m", "a", "c", "a", "o">>,
        <<"f", "o", "r", "m", "a", "ç", "ã", "o">>,
        <<"n", "a", "n", "o", "d", "e", "g", "r", "e", "e">>,
        <<"c", "o", "d", "e", "c", "a", "d", "e", "m", "y">>,
        <<"f", "r", "e", "e", "c", "o", "d", "e", "c", "a", "m", "p">>>>

BOILERPLATE_KEYWORDS_DEFAULT ==
    <<<<"b", "o", "i", "l", "e", "r", "p", "l", "a", "t", "e">>,
        <<"s", "t", "a", "r", "t", "e", "r">>,
        <<"s", "t", "a", "r", "t", "e", "r", "-", "k", "i", "t">>,
        <<"s", "e", "e", "d">>,
        <<"s", "c", "a", "f", "f", "o", "l", "d">>,
        <<"s", "k", "e", "l", "e", "t", "o", "n">>,
        <<"q", "u", "i", "c", "k", "s", "t", "a", "r", "t">>,
        <<"t", "e", "m", "p", "l", "a", "t", "e">>,
        <<"t", "e", "m", "p", "l", "a", "t", "e", "s">>>>

\* EXTRA_COURSE_KEYWORDS and EXTRA_BOILERPLATE_KEYWORDS from the value of
\* their environment variable (unset: the empty string)
extraKeywords(value) ==
    LET parts == split(value)
    IN  filterNonEmpty([i \in 1..Len(parts) |-> toLowerCaseText(trim(parts[i]))])

textIncludesAny(haystack, keywords) ==
    LET lc == toLowerCaseText(haystack)
    IN  \E j \in 1..Len(keywords) : includes(lc, keywords[j])

\* a slice that keeps the whole text
sliceWhole(t, n) == t

\* String.prototype.slice(0, n)
slice(t, n) == SubSeq(t, 1, IF Len(t) < n THEN Len(t) ELSE n)

\* getRepoReadme(owner, repo).catch(() => ''): the text of the README, ''
\* when there is none or the request fails
readmeText(readme) == IF readme.st = "ok" THEN readme.text ELSE <<>>

\* detectCourseOrBoilerplate(owner, repo, name, description, topics) under the
\* settings c; readme is the answer to the README request
isCourseOrBoilerplate(name, description, topics, readme, c) ==
    LET courseKeywords == COURSE_KEYWORDS_DEFAULT \o extraKeywords(c.COURSE_KEYWORDS)
        boilerKeywords == BOILERPLATE_KEYWORDS_DEFAULT
                          \o extraKeywords(c.BOILERPLATE_KEYWORDS)
        nameStr == toLowerCaseText(name)
        descStr == toLowerCaseText(description)
        topicsStr == join([i \in 1..Len(topics) |-> toLowerCaseText(topics[i])])
        isCourse == \/ textIncludesAny(nameStr, courseKeywords)
                    \/ textIncludesAny(descStr, courseKeywords)
                    \/ textIncludesAny(topicsStr, courseKeywords)
        isBoilerOrTemplate == \/ textIncludesAny(nameStr, boilerKeywords)
                              \/ textIncludesAny(descStr, boilerKeywords)
                              \/ textIncludesAny(topicsStr, boilerKeywords)
        readme2k == toLowerCaseText(slice(readmeText(readme), README_SLICE))
    IN  IF ~isCourse /\ ~isBoilerOrTemplate /\ c.README_COURSE_CHECK
        THEN \/ textIncludesAny(readme2k, courseKeywords)
             \/ textIncludesAny(readme2k, boilerKeywords)
        ELSE isCourse \/ isBoilerOrTemplate

\* the texts one classification is run with
AcmeDashboard == <<"a", "c", "m", "e", "-", "d", "a", "s", "h", "b", "o", "a", "r", "d">>
ReactBootcamp == <<"r", "e", "a", "c", "t", "-", "b", "o", "o", "t", "c", "a", "m", "p", "-", "2", "0", "2", "3">>
Seedling == <<"S", "e", "e", "d", "l", "i", "n", "g">>
MyTemplates == <<"M", "y", " ", "T", "E", "M", "P", "L", "A", "T", "E", "S">>
UdemyCourse == <<"U", "d", "e", "m", "y", " ", "C", "o", "u", "r", "s", "e">>
Bootcamp == <<"b", "o", "o", "t", "c", "a", "m", "p">>
Pad(n) == [i \in 1..n |-> "."]

NoiseNames == {AcmeDashboard, ReactBootcamp, Seedling}
NoiseDescriptions == {<<>>, MyTemplates}
NoiseTopics == {<<>>, <<<<"r", "e", "a", "c", "t">>, <<"T", "u", "t", "o", "r", "i", "a", "l">>>>, <<<<"b", "o", "o", "t">>, <<"c", "a", "m", "p">>>>}
\* no README, a failed request, a short README, a keyword that ends at
\* character README_SLICE and one that ends after it
NoiseReadmes ==
    {[st |-> "absent", text |-> <<>>], [st |-> "err", text |-> <<>>],
     [st |-> "ok", text |-> UdemyCourse],
     [st |-> "ok", text |-> Pad(README_SLICE - Len(Bootcamp)) \o Bootcamp],
     [st |-> "ok", text |-> Pad(README_SLICE - Len(Bootcamp) + 1) \o Bootcamp]}
NoiseSettings ==
    [README_COURSE_CHECK : BOOLEAN,
     COURSE_KEYWORDS : {<<>>, <<" ", "B", "o", "o", "t", " ", "C", "a", "m", "p", " ", ",", ",", "A", "C", "M", "E">>},
     BOILERPLATE_KEYWORDS : {<<>>, <<"D", "a", "s", "h">>}]

InitNoise ==
    /\ variant \in FilterVariants
    /\ cfg = DefaultCfg
    /\ DriverOff /\ DetectIdle /\ ClientIdle /\ StartupIdle
    /\ LayerIdle /\ QueryIdle /\ ScanIdle /\ ThrottleIdle
    /\ npc = "call"
    /\ nin \in [name : NoiseNames, description : NoiseDescriptions,
                topics : NoiseTopics, readme : NoiseReadmes, c : NoiseSettings]
    /\ nout = FALSE

\* `const courseFlag = await detectCourseOrBoilerplate(...)`
ClassifyText ==
    /\ npc = "call"
    /\ nout' = isCourseOrBoilerplate(nin.name, nin.description, nin.topics,
                                     nin.readme, nin.c)
    /\ npc' = "returned"
    /\ UNCHANGED nin
    /\ UNCHANGED <<driverVars, detectVars, clientVars, startVars, layerVars,
                   queryVars, scanVars, throttleVars>>

NextNoise ==
    \/ ClassifyText

SpecNoise == InitNoise /\ [][NextNoise]_vars

-----------------------------------------------------------------------------
(***************************************************************************)
(* detectTech of restSeq and restConc layer by layer: three calls in a     *)
(* row, the first for an earlier repository, the next two with the same    *)
(* answers of the API.                                                     *)
(***************************************************************************)
MaxCalls == 3

\* the manifests the layers are run with
LayerPkgs ==
    {[NoPkg EXCEPT !.st = "err"], NoPkg, FullPkg,
     [st |-> "ok", deps |-> {"react"}, dev |-> {"jest"}, scripts |-> {}],
     [st |-> "ok", deps |-> {"typescript"}, dev |-> {"enzyme"},
      scripts |-> {"jest --coverage"}]}

\* the answers of the API the layers are run with
LayerAnswers(v) ==
    {[NoAnswers EXCEPT !.gql = g, !.langs = l, !.pkg = p, !.topics = tp,
                       !.tsconfig = tc, !.jestConfigs = jc, !.scan = sc] :
        g \in (IF v = "restConc" THEN {"ok", "fail"} ELSE {"fail"}),
        l \in {"ts", "none"},
        p \in LayerPkgs,
        tp \in {[st |-> "ok", names |-> {}], [st |-> "ok", names |-> {"React"}]},
        tc \in {"absent", "present", "err"},
        jc \in AnalysisJestConfigs,
        sc \in {{}, {[dir |-> <<"src">>, name |-> "App.test.tsx",
                      content |-> RenderImport]}}}

\* the answers for the earlier repository: everything found in the manifest,
\* Jest found by its config file, a request that fails
EarlierAnswers(v) ==
    {[NoAnswers EXCEPT !.langs = "ts", !.pkg = FullPkg],
     [NoAnswers EXCEPT !.topics = [st |-> "ok", names |-> {"React"}],
                       !.tsconfig = "present",
                       !.jestConfigs = [i \in 1..Len(JestConfigCandidates) |->
                                           IF i = 4 THEN "present" ELSE "absent"],
                       !.scan = {[dir |-> <<"src">>, name |-> "App.test.tsx",
                                  content |-> RenderImport]}],
     [NoAnswers EXCEPT !.pkg = [NoPkg EXCEPT !.st = "err"]]}

InitLayers ==
    /\ variant \in ScanVariants
    /\ cfg = DefaultCfg
    /\ DriverOff /\ DetectIdle /\ ClientIdle /\ StartupIdle
    /\ NoiseIdle /\ QueryIdle /\ ScanIdle /\ ThrottleIdle
    /\ lpc = "idle"
    /\ la = NoAnswers
    /\ sig = NoTech
    /\ runs = <<>>
    /\ plan \in {<<b, a, a>> : b \in EarlierAnswers(variant),
                               a \in LayerAnswers(variant)}
    /\ lreq = <<>>

\* locals that outlive the call: the list of libraries of the call before
keepLibs(old) == [NoTech EXCEPT !.feLibs = old.feLibs]

\* `let hasTS = false; ... let hasFrontendTestLibs = false;`: the locals of a
\* new call, whatever the locals `old` of the call before held
declareLocals(old) == NoTech

\* whether this call has the answer of getRepoInfoGraphQL
viaGraphQL == variant = "restConc" /\ la.gql = "ok"

\* the requests this call has issued, with those of the layer added on the
\* REST path
requested(names) == IF viaGraphQL THEN lreq ELSE lreq \o names

\* the getRepoContent calls of `if (!hasTS) { ... }`: tsconfig.base.json is
\* requested when tsconfig.json gave nothing
tsconfigRequests(a) ==
    IF a.tsconfig = "absent"
    THEN <<"tsconfig.json", "tsconfig.base.json">>
    ELSE <<"tsconfig.json">>

\* a loop over the candidates that has no break
jestConfigRequestsAll(a) == JestConfigCandidates

\* the getRepoContent calls of the loop over the candidates: up to the first
\* one that is found or throws
jestConfigRequests(a) ==
    LET hit == {i \in 1..Len(JestConfigCandidates) : a.jestConfigs[i] # "absent"}
    IN  IF hit = {} THEN JestConfigCandidates
        ELSE SubSeq(JestConfigCandidates, 1, Min(hit))

layerFrame ==
    UNCHANGED <<driverVars, detectVars, clientVars, startVars, noiseVars,
                queryVars, scanVars, throttleVars>>

\* detectTech rejects: the locals are gone, the caller sees the error
throw ==
    /\ lpc' = "threw"
    /\ runs' = Append(runs, [a |-> la, r |-> Threw])
    /\ UNCHANGED <<la, sig, plan>>

\* `await detectTech(owner, repo)` for the next repository
CallDetectTech ==
    /\ lpc \in {"idle", "returned", "threw"}
    /\ Len(runs) < Len(plan)
    /\ la' = plan[Len(runs) + 1]
    /\ sig' = declareLocals(sig)
    /\ lpc' = "langs"
    /\ UNCHANGED <<runs, plan>>
    /\ lreq' = <<>>
    /\ layerFrame

\* the language breakdown; with the GraphQL answer the topics are read here
LanguagesLayer ==
    /\ lpc = "langs"
    /\ sig' = [sig EXCEPT !.hasTS = la.langs = "ts",
                          !.topics = IF viaGraphQL /\ la.topics.st = "ok"
                                     THEN la.topics.names ELSE @]
    /\ lpc' = "manifest"
    /\ UNCHANGED <<la, runs, plan>>
    /\ lreq' = requested(<<"languages">>)
    /\ layerFrame

\* `if (pkgJson) { ... }`
ManifestLayer ==
    /\ lpc = "manifest"
    /\ IF ~viaGraphQL /\ la.pkg.st = "err"
       THEN throw
       ELSE /\ sig' = IF la.pkg.st = "ok"
                      THEN LET fe == detectFrontendFromPkg(la.pkg)
                           IN  [sig EXCEPT
                                  !.hasReactDeps = pkgHasAnyDep(la.pkg, ReactPackages),
                                  !.hasReact = pkgHasAnyDep(la.pkg, ReactPackages),
                                  !.hasTS = @ \/ pkgHasAnyDep(la.pkg, {"typescript"}),
                                  !.hasFrontendTests = fe.hasFrontendTests,
                                  !.feLibs = fe.libs,
                                  !.hasJest = fe.hasJest,
                                  !.hasFrontendTestLibs = fe.hasFrontendTestLibs]
                      ELSE sig
            /\ lpc' = "topics"
            /\ UNCHANGED <<la, runs, plan>>
    /\ lreq' = requested(<<"package.json">>)
    /\ layerFrame

\* a topics layer that assigns the framework signal
topicsLayerAssigns(s, topics) ==
    [s EXCEPT !.topics = topics, !.hasReact = topicsIncludeReact(topics)]

\* `if (!hasReact && topics.map(...).includes('react')) hasReact = true`
topicsLayer(s, topics) ==
    [s EXCEPT !.topics = topics,
              !.hasReact = IF ~s.hasReact /\ topicsIncludeReact(topics)
                           THEN TRUE ELSE @]

\* the REST path requests the topics here, a failure giving []
TopicsLayer ==
    /\ lpc = "topics"
    /\ sig' = topicsLayer(sig, IF viaGraphQL THEN sig.topics
                               ELSE IF la.topics.st = "ok" THEN la.topics.names
                               ELSE {})
    /\ lpc' = "tsconfig"
    /\ UNCHANGED <<la, runs, plan>>
    /\ lreq' = requested(<<"topics">>)
    /\ layerFrame

\* `if (!hasTS) { ... }`
TsConfigLayer ==
    /\ lpc = "tsconfig"
    /\ IF ~sig.hasTS /\ ~viaGraphQL /\ tsconfigProbe(la) = "threw"
       THEN throw
       ELSE /\ sig' = IF sig.hasTS THEN sig
                      ELSE IF viaGraphQL
                      THEN [sig EXCEPT !.hasTS = \/ la.tsconfig = "present"
                                                 \/ la.tsconfigBase = "present"]
                      ELSE [sig EXCEPT !.hasTS = tsconfigProbe(la) = "found"]
            /\ lpc' = "jestconfig"
            /\ UNCHANGED <<la, runs, plan>>
    /\ lreq' = IF sig.hasTS THEN lreq ELSE requested(tsconfigRequests(la))
    /\ layerFrame

\* `if (!hasJest) { ... }`
JestConfigLayer ==
    /\ lpc = "jestconfig"
    /\ IF ~sig.hasJest /\ ~viaGraphQL /\ jestConfigProbe(la) = "threw"
       THEN throw
       ELSE /\ LET hasJestConfig ==
                       IF viaGraphQL
                       THEN \E i \in 1..Len(JestConfigCandidates) :
                                la.jestConfigs[i] = "present"
                       ELSE jestConfigProbe(la) = "found"
               IN  sig' = IF ~sig.hasJest /\ hasJestConfig
                          THEN [sig EXCEPT !.hasJest = TRUE,
                                           !.feLibs = IF "jest" \in Range(@)
                                                      THEN @ ELSE Append(@, "jest")]
                          ELSE sig
            /\ lpc' = "scan"
            /\ UNCHANGED <<la, runs, plan>>
    /\ lreq' = IF sig.hasJest THEN lreq ELSE requested(jestConfigRequests(la))
    /\ layerFrame

\* `if (hasReact && hasJest && !hasFrontendTestLibs) { ... }`
ScanLayer ==
    /\ lpc = "scan"
    /\ sig' = IF /\ sig.hasReact /\ sig.hasJest /\ ~sig.hasFrontendTestLibs
                 /\ searchForTestFiles(la.scan)
              THEN [sig EXCEPT !.hasFrontendTestLibs = TRUE,
                               !.feLibs = Append(@, "test-files")]
              ELSE sig
    /\ lpc' = "final"
    /\ UNCHANGED <<la, runs, plan>>
    /\ UNCHANGED lreq
    /\ layerFrame

\* the final rule and the return
FinalRule ==
    /\ lpc = "final"
    /\ sig' = [sig EXCEPT !.hasFrontendTests =
                              sig.hasReact /\ sig.hasJest /\ sig.hasFrontendTestLibs]
    /\ runs' = Append(runs, [a |-> la, r |-> sig'])
    /\ lpc' = "returned"
    /\ UNCHANGED <<la, plan>>
    /\ UNCHANGED lreq
    /\ layerFrame

NextLayers ==
    \/ CallDetectTech
    \/ LanguagesLayer
    \/ ManifestLayer
    \/ TopicsLayer
    \/ TsConfigLayer
    \/ JestConfigLayer
    \/ ScanLayer
    \/ FinalRule

SpecLayers == InitLayers /\ [][NextLayers]_vars

-----------------------------------------------------------------------------
(***************************************************************************)
(* The ConcurrencyLimiter on its own: tasks are added one at a time, at    *)
(* any moment, and a running task settles by fulfilment or by rejection.   *)
(* In main() every task is processRepository, which catches what it        *)
(* throws, so its promise is always fulfilled; here both ways are open.    *)
(***************************************************************************)
MaxTasks == 4        \* tasks added to the limiter

InitLimiter ==
    /\ variant = "restConc"
    /\ cfg \in {[DefaultCfg EXCEPT !.CONCURRENT_REPOS = cr] : cr \in 1..MaxLimit}
    /\ pc = "limiter"
    /\ qi = 1 /\ page = 1 /\ after = 0 /\ fetched = 0 /\ result = NoResult
    /\ idx = 1 /\ rows = <<>> /\ totalQualified = 0 /\ foundThisQuery = 0
    /\ reachedLimit = FALSE /\ stopRequested = FALSE
    /\ items = [t \in 1..MaxTasks |-> t]
    /\ processed = {}
    /\ detectCount = [t \in 1..MaxTasks |-> 0]
    /\ running = 0
    /\ queue = <<>>
    /\ tasks = <<>>
    /\ DetectIdle /\ ClientIdle /\ StartupIdle /\ HarnessIdle

\* promises that have settled and whose finally callback has not run
settledTasks == {t \in DOMAIN tasks : tasks[t].st \in {"settled", "rejected"}}

limiterFrame ==
    /\ UNCHANGED <<variant, cfg, pc, qi, page, after, fetched, result, items,
                   idx, rows, totalQualified, foundThisQuery, reachedLimit,
                   stopRequested>>
    /\ UNCHANGED <<detectVars, clientVars, startVars, harnessVars>>

\* limiter.add(fn) for the next task
LimiterAdd ==
    /\ pc = "limiter"
    /\ settledTasks = {}
    /\ Len(tasks) < MaxTasks
    /\ LET L == add([running |-> running, queue |-> queue,
                     tasks |-> Append(tasks, [st |-> "queued", res |-> <<>>,
                                              early |-> FALSE]),
                     processed |-> processed,
                     detectCount |-> detectCount], Len(tasks) + 1)
       IN  /\ running' = L.running
           /\ queue' = L.queue
           /\ tasks' = L.tasks
           /\ processed' = L.processed
           /\ detectCount' = L.detectCount
    /\ limiterFrame

\* the promise of fn() is fulfilled: .then(resolve)
LimiterFulfil(t) ==
    /\ pc = "limiter"
    /\ settledTasks = {}
    /\ tasks[t].st = "running"
    /\ tasks' = [tasks EXCEPT ![t].st = "settled", ![t].res = <<items[t]>>]
    /\ UNCHANGED <<running, queue, processed, detectCount>>
    /\ limiterFrame

\* the promise of fn() is rejected: .catch(reject)
LimiterReject(t) ==
    /\ pc = "limiter"
    /\ settledTasks = {}
    /\ tasks[t].st = "running"
    /\ tasks' = [tasks EXCEPT ![t].st = "rejected"]
    /\ UNCHANGED <<running, queue, processed, detectCount>>
    /\ limiterFrame

\* .finally(() => { this.running--; this.tryNext(); })
LimiterFinally(t) ==
    /\ pc = "limiter"
    /\ t \in settledTasks
    /\ LET L == finallyCallback([running |-> running, queue |-> queue,
                                 tasks |-> tasks, processed |-> processed,
                                 detectCount |-> detectCount], t)
       IN  /\ running' = L.running
           /\ queue' = L.queue
           /\ tasks' = L.tasks
           /\ processed' = L.processed
           /\ detectCount' = L.detectCount
    /\ limiterFrame

NextLimiter ==
    \/ LimiterAdd
    \/ \E t \in DOMAIN tasks : LimiterFulfil(t)
    \/ \E t \in DOMAIN tasks : LimiterReject(t)
    \/ \E t \in DOMAIN tasks : LimiterFinally(t)

SpecLimiter == InitLimiter /\ [][NextLimiter]_vars

\* task t, once started, settles one way or the other
TaskEnds(t) ==
    /\ t \in DOMAIN tasks
    /\ LimiterFulfil(t) \/ LimiterReject(t)

\* the finally callback of a settled promise runs
TaskCallback(t) == t \in DOMAIN tasks /\ LimiterFinally(t)

\* every started task settles in the end, and the microtasks of a settled
\* promise are run
FairSpecLimiter ==
    /\ SpecLimiter
    /\ \A t \in 1..MaxTasks : WF_vars(TaskEnds(t)) /\ WF_vars(TaskCallback(t))

-----------------------------------------------------------------------------
(***************************************************************************)
(* buildQueries() of restSeq and restConc, for a range of dates of the     *)
(* run and of settings.  Months count from 0 as Date.getUTCMonth does.     *)
(***************************************************************************)
MaxQuarters == 5     \* largest QUARTERS_COUNT tried

Digits == <<"0", "1", "2", "3", "4", "5", "6", "7", "8", "9">>

\* String(n) for a natural number n
RECURSIVE String(_)
String(n) ==
    IF n < 10 THEN <<Digits[n + 1]>>
    ELSE String(n \div 10) \o <<Digits[(n % 10) + 1]>>

\* String.prototype.padStart(2, '0')
padStart2(t) == IF Len(t) < 2 THEN <<"0">> \o t ELSE t

\* new Date(Date.UTC(y, m, 1)) for a month index m that may leave 0..11
DateUTC(y, m) == [year |-> y + ((m - (m % 12)) \div 12), month |-> m % 12]

\* new Date(Date.UTC(y, m + 1, 0)).getUTCDate(): the last day of month m
lastDayOf(y, m) == IF m \in {3, 5, 8, 10} THEN 30
                   ELSE IF m = 1 THEN (IF y % 4 = 0 /\ (y % 100 # 0 \/ y % 400 = 0)
                                       THEN 29 ELSE 28)
                   ELSE 31

\* the range that the loop of buildLastNQuarters pushes with `cur` at the
\* first month of a quarter
quarterRange(cur) ==
    LET y == cur.year
        m0 == cur.month
        qEndMonth == m0 + 2
        start == String(y) \o <<"-">> \o padStart2(String(m0 + 1)) \o <<"-", "0", "1">>
        finish == String(y) \o <<"-">> \o padStart2(String(qEndMonth + 1))
                  \o <<"-">> \o padStart2(String(lastDayOf(y, qEndMonth)))
    IN  <<"p", "u", "s", "h", "e", "d", ":">> \o start \o <<".", ".">> \o finish

\* the loop of buildLastNQuarters from its i-th round on
RECURSIVE lastQuartersFrom(_, _, _)
lastQuartersFrom(cur, i, n) ==
    IF i < n
    THEN <<quarterRange(cur)>>
         \o lastQuartersFrom(DateUTC(cur.year, cur.month - 3), i + 1, n)
    ELSE <<>>

\* buildLastNQuarters(n) called at the date `today`
buildLastNQuarters(today, n) ==
    LET qStartMonth == (today.month \div 3) * 3
    IN  lastQuartersFrom(DateUTC(today.year, qStartMonth), 0, n)

BASES ==
    <<<<"l", "a", "n", "g", "u", "a", "g", "e", ":", "T", "y", "p", "e", "S", "c", "r", "i", "p", "t", " ", "r", "e", "a", "c", "t">>,
      <<"l", "a", "n", "g", "u", "a", "g", "e", ":", "T", "y", "p", "e", "S", "c", "r", "i", "p", "t", " ", "t", "o", "p", "i", "c", ":", "r", "e", "a", "c", "t">>,
      <<"l", "a", "n", "g", "u", "a", "g", "e", ":", "T", "y", "p", "e", "S", "c", "r", "i", "p", "t", " ", "\"", "r", "e", "a", "c", "t", "\"", " ", "i", "n", ":", "n", "a", "m", "e", ",", "d", "e", "s", "c", "r", "i", "p", "t", "i", "o", "n", ",", "r", "e", "a", "d", "m", "e">>>>

ForkFalse == <<"f", "o", "r", "k", ":", "f", "a", "l", "s", "e">>
ArchivedFalse == <<"a", "r", "c", "h", "i", "v", "e", "d", ":", "f", "a", "l", "s", "e">>

\* a query without the exclusion of archived repositories
oneQueryWithArchived(base, pushed, excl) ==
    trim(join(filterNonEmpty(<<base, pushed, ForkFalse, excl>>)))

\* `[base, pushed, 'fork:false', 'archived:false', excl].filter(Boolean).join(' ').trim()`
oneQuery(base, pushed, excl) ==
    trim(join(filterNonEmpty(<<base, pushed, ForkFalse, ArchivedFalse, excl>>)))

\* the two nested loops of buildQueries from base b and quarter j on
RECURSIVE queriesFrom(_, _, _, _)
queriesFrom(b, j, quarters, excl) ==
    IF b > Len(BASES) THEN <<>>
    ELSE IF j > Len(quarters) THEN queriesFrom(b + 1, 1, quarters, excl)
    ELSE <<oneQuery(BASES[b], quarters[j], excl)>>
         \o queriesFrom(b, j + 1, quarters, excl)

\* buildQueries() at the date `today` with the settings c: EXCLUDE_TOPICS is
\* the trimmed value of its environment variable
buildQueries(today, c) ==
    queriesFrom(1, 1, buildLastNQuarters(today, c.QUARTERS_COUNT),
                trim(c.EXCLUDE_TOPICS))

ExcludeTopicsValue == <<" ", "-", "t", "o", "p", "i", "c", ":", "t", "e", "m", "p", "l", "a", "t", "e", " ", "-", "t", "o", "p", "i", "c", ":", "b", "o", "i", "l", "e", "r", "p", "l", "a", "t", "e", " ">>

InitQueries ==
    /\ variant \in OffsetVariants
    /\ cfg = DefaultCfg
    /\ DriverOff /\ DetectIdle /\ ClientIdle /\ StartupIdle
    /\ NoiseIdle /\ LayerIdle /\ ScanIdle /\ ThrottleIdle
    /\ bpc = "call"
    /\ bin \in [today : [year : {2023, 2024}, month : 0..11],
                c : [QUARTERS_COUNT : 0..MaxQuarters,
                     EXCLUDE_TOPICS : {<<>>, <<" ", " ">>, ExcludeTopicsValue}]]
    /\ queries = <<>>

\* `const queries = buildQueries()` in main()
BuildQueries ==
    /\ bpc = "call"
    /\ queries' = buildQueries(bin.today, bin.c)
    /\ bpc' = "returned"
    /\ UNCHANGED bin
    /\ UNCHANGED <<driverVars, detectVars, clientVars, startVars, noiseVars,
                   layerVars, scanVars, throttleVars>>

NextQueries ==
    \/ BuildQueries

SpecQueries == InitQueries /\ [][NextQueries]_vars

-----------------------------------------------------------------------------
(***************************************************************************)
(* The source scan request by request: detectTech reaches the scan with    *)
(* the signals the earlier layers left, searchForTestFiles loops over      *)
(* testPatterns and searchDirectoryForReactTests calls itself for the      *)
(* directories of a listing.  Every answer of the API is an input: each    *)
(* listing is drawn when it arrives, so every directory may hold further   *)
(* directories, however deep the scan has come.                            *)
(***************************************************************************)
MaxDepth == 3        \* `if (depth < 3)`

\* the arrays the contents API answers a directory with
ScanListings ==
    {<<>>,
     <<[type |-> "file", name |-> "App.test.tsx"],
       [type |-> "dir", name |-> "ui"],
       [type |-> "file", name |-> "util.spec.ts"]>>,
     <<[type |-> "dir", name |-> "node_modules"],
       [type |-> "file", name |-> "App.tsx"],
       [type |-> "dir", name |-> ".git"],
       [type |-> "symlink", name |-> "docs"],
       [type |-> "dir", name |-> "lib"],
       [type |-> "dir", name |-> "ui"]>>}

\* what getRepoContent returns or throws for a file
ScanContents == {RenderImport, PlainText, "", "err"}

\* the signals of detectTech when it reaches the scan
ScanSignals ==
    [hasReact : BOOLEAN, hasJest : BOOLEAN, hasFrontendTestLibs : BOOLEAN]

InitScan ==
    /\ variant \in ScanVariants
    /\ cfg = DefaultCfg
    /\ DriverOff /\ DetectIdle /\ ClientIdle /\ StartupIdle
    /\ NoiseIdle /\ LayerIdle /\ QueryIdle /\ ThrottleIdle
    /\ kpc = "guard"
    /\ ksig \in ScanSignals
    /\ kpat = 1
    /\ kstack = <<>>
    /\ kfound = FALSE
    /\ klast = NoRequest
    /\ nscan = 0
    /\ kmatched = FALSE

scanFrame ==
    UNCHANGED <<driverVars, detectVars, clientVars, startVars, noiseVars,
                layerVars, queryVars, throttleVars>>

\* a match that ends the innermost call only
returnToCaller(stack) == Tail(stack)

\* `return true` and, in every caller, `if (found) return true`
returnTrue(stack) == <<>>

\* a scan that goes one level further down
mayDescendDeeper(basePath) == Len(basePath) <= MaxDepth

\* `const depth = basePath.split('/').length; if (depth < 3)`
mayDescend(basePath) == Len(basePath) < MaxDepth

\* the directory branch of the loop of searchDirectoryForReactTests
entersDirectory(item, basePath) ==
    /\ item.type = "dir"
    /\ item.name # "node_modules"
    /\ item.name # ".git"
    /\ mayDescend(basePath)

\* `if (hasReact && hasJest && !hasFrontendTestLibs)` of detectTech
ScanGuard ==
    /\ kpc = "guard"
    /\ IF ksig.hasReact /\ ksig.hasJest /\ ~ksig.hasFrontendTestLibs
       THEN kpc' = "pattern"
       ELSE kpc' = "final"
    /\ UNCHANGED <<ksig, kpat, kstack, kfound, klast, nscan, kmatched>>
    /\ scanFrame

\* the head of the loop over testPatterns: `if (foundReactTests) break`,
\* else the listing of the pattern is requested
NextPattern ==
    /\ kpc = "pattern"
    /\ IF kfound \/ kpat > Len(testPatterns)
       THEN /\ kpc' = "returned"
            /\ UNCHANGED <<klast, nscan>>
       ELSE /\ kpc' = "listing"
            /\ klast' = [kind |-> "dir", path |-> <<testPatterns[kpat]>>]
            /\ nscan' = nscan + 1
    /\ UNCHANGED <<ksig, kpat, kstack, kfound, kmatched>>
    /\ scanFrame

\* where the scan goes on after a call or a request that found nothing
resume(stack) ==
    IF stack = <<>>
    THEN /\ kpc' = "pattern"
         /\ kpat' = kpat + 1
    ELSE /\ kpc' = "item"
         /\ UNCHANGED kpat

\* the listing request is answered: an array starts a call of
\* searchDirectoryForReactTests on it, anything else and a throw are passed
ListingAnswer ==
    /\ kpc = "listing"
    /\ \/ \E l \in ScanListings :
             /\ kstack' = <<[path |-> klast.path, rest |-> l]>> \o kstack
             /\ kpc' = "item"
             /\ UNCHANGED kpat
       \/ /\ resume(kstack)
          /\ UNCHANGED kstack
    /\ UNCHANGED <<ksig, kfound, klast, nscan, kmatched>>
    /\ scanFrame

\* the head of the loop over the items of a listing
NextItem ==
    /\ kpc = "item"
    /\ LET top == Head(kstack)
       IN  IF top.rest = <<>>
           THEN /\ kstack' = Tail(kstack)
                /\ resume(Tail(kstack))
                /\ UNCHANGED <<klast, nscan>>
           ELSE LET item == Head(top.rest)
                    itemPath == Append(top.path, item.name)
                    request == item.type = "file" /\ nameMatches(item.name)
                    listing == entersDirectory(item, top.path)
                IN  /\ kstack' = <<[top EXCEPT !.rest = Tail(@)]>> \o Tail(kstack)
                    /\ UNCHANGED kpat
                    /\ IF request \/ listing
                       THEN /\ klast' = [kind |-> item.type, path |-> itemPath]
                            /\ nscan' = nscan + 1
                            /\ kpc' = IF request THEN "content" ELSE "listing"
                       ELSE UNCHANGED <<kpc, klast, nscan>>
    /\ UNCHANGED <<ksig, kfound, kmatched>>
    /\ scanFrame

\* getRepoContent answers for a file whose name matched
ContentAnswer ==
    /\ kpc = "content"
    /\ \E c \in ScanContents :
          IF fileIsReactTest([name |-> klast.path[Len(klast.path)],
                              content |-> c])
          THEN /\ kmatched' = TRUE
               /\ kfound' = TRUE
               /\ kstack' = returnTrue(kstack)
               /\ IF kstack' = <<>>
                  THEN kpc' = "pattern"
                  ELSE kpc' = "item"
          ELSE /\ kpc' = "item"
               /\ UNCHANGED <<kstack, kfound, kmatched>>
    /\ UNCHANGED <<ksig, kpat, klast, nscan>>
    /\ scanFrame

\* searchForTestFiles returned: `if (foundTestFiles) hasFrontendTestLibs = true`
ScanReturned ==
    /\ kpc = "returned"
    /\ ksig' = [ksig EXCEPT !.hasFrontendTestLibs = @ \/ kfound]
    /\ kpc' = "final"
    /\ UNCHANGED <<kpat, kstack, kfound, klast, nscan, kmatched>>
    /\ scanFrame

NextScan ==
    \/ ScanGuard
    \/ NextPattern
    \/ ListingAnswer
    \/ NextItem
    \/ ContentAnswer
    \/ ScanReturned

SpecScan == InitScan /\ [][NextScan]_vars

\* every request is answered and the script goes on running
FairSpecScan == SpecScan /\ WF_vars(NextScan)

-----------------------------------------------------------------------------
(***************************************************************************)
(* One client call: ghGET(url) or ghGraphQL(query, variables) from its     *)
(* first request to its return or throw, under a clock.  Times are in      *)
(* milliseconds; the reset header counts seconds.                          *)
(***************************************************************************)
ClockStep == 10000   \* milliseconds the clock advances in one step
MaxTime == 20000     \* the clock runs at least this far
MaxRequests == 3     \* responses after this many requests are not rate-limited
LongBody == 1000     \* characters of a long error body

\* timeoutMs of fetchWithTimeout
TIMEOUT_MS == 30000

\* the values of x-ratelimit-reset the server sends, in seconds
ResetTimes == {0, 10, 20}

Max(a, b) == IF a >= b THEN a ELSE b

\* the statuses the server answers with
Statuses == {200, 403, 404, 429, 500}

\* the lengths of the body of an error response, in characters
BodyLengths == {0, LongBody}

\* res.ok
ok(res) == res.status >= 200 /\ res.status <= 299

\* the responses of the server; only a 2xx body is parsed for `errors`, only
\* the body of an error response is quoted
Responses ==
    {res \in [status : Statuses,
              remaining : {<<>>, <<0>>, <<10>>},
              reset : {<<>>} \cup {<<t>> : t \in ResetTimes},
              errors : BOOLEAN,
              body : BodyLengths] :
        IF ok(res) THEN res.body = 0 ELSE ~res.errors}

\* res.statusText: the reason phrase of the status
statusText(st) ==
    CASE st = 403 -> "Forbidden"
      [] st = 404 -> "Not Found"
      [] st = 429 -> "Too Many Requests"
      [] st = 500 -> "Internal Server Error"
      [] OTHER -> "OK"

\* a handleRateLimit that does not look at x-ratelimit-remaining
rateLimitedAnyRemaining(res) == res.status = 403 /\ res.reset # <<>>

\* the condition under which handleRateLimit(res) sleeps and returns true
rateLimited(res) ==
    res.status = 403 /\ res.remaining = <<0>> /\ res.reset # <<>>

\* a ghGET without the 404 branch
notFoundNever(res) == FALSE

\* `if (res.status === 404) return { status: 404 }`, in ghGET only
notFound(res) == ckind = "GET" /\ res.status = 404

\* a waitMs that sleeps the margin only
waitMsMarginOnly(reset, t) == 5000

\* waitMs of handleRateLimit at time t
waitMs(reset, t) == Max(0, reset * 1000 - t) + 5000

\* a proportional wait without its cap
proportionalWaitUncapped(res, t) ==
    LET remaining == IF res.remaining = <<>> THEN 5000 ELSE res.remaining[1]
        reset == IF res.reset = <<>> THEN 0 ELSE res.reset[1]
        timeToReset == Max(0, reset * 1000 - t)
        quotient == timeToReset \div Max(remaining, 1)
    IN  IF /\ remaining < 1000 /\ reset > 0
           /\ timeToReset > 100 * Max(remaining, 1)
        THEN quotient ELSE 0

\* checkDynamicRateLimit(res) at time t: the length of its sleep, 0 for none
proportionalWait(res, t) ==
    LET remaining == IF res.remaining = <<>> THEN 5000 ELSE res.remaining[1]
        reset == IF res.reset = <<>> THEN 0 ELSE res.reset[1]
        timeToReset == Max(0, reset * 1000 - t)
        quotient == timeToReset \div Max(remaining, 1)
        wait == IF quotient < 5000 THEN quotient ELSE 5000
        \* proportionalWait > 100, on the unrounded quotient
        significant == timeToReset > 100 * Max(remaining, 1)
    IN  IF remaining < 1000 /\ reset > 0 /\ significant THEN wait ELSE 0

\* the message of the Error thrown for a response that is not ok:
\* `${res.status} - ${res.statusText} - ${txt.slice(0, 300)}` (500 in the
\* GraphQL generations)
errorMessage(res) ==
    LET limit == IF variant \in {"restSeq", "restConc"} THEN 300 ELSE 500
    IN  [status |-> res.status, statusText |-> statusText(res.status),
         body |-> IF res.body < limit THEN res.body ELSE limit]

InitClient ==
    /\ variant \in Variants
    /\ cfg = DefaultCfg
    /\ DriverOff
    /\ DetectIdle
    /\ StartupIdle
    /\ HarnessIdle
    /\ now = 0
    /\ cpc = "call"
    /\ ckind \in (IF variant = "restSeq" THEN {"GET"} ELSE {"GET", "GraphQL"})
    /\ resp = NoResponse
    /\ wakeAt = 0
    /\ nreq = 0
    /\ outcome = "none"
    /\ sentAt = 0
    /\ nlimited = 0
    /\ error = NoError

\* the end of a call that got a 2xx response
finish(res) ==
    IF ckind = "GraphQL" /\ res.errors
    THEN cpc' = "threw" /\ outcome' = "errors"
    ELSE cpc' = "returned" /\ outcome' = "data"

\* the top of the while loop: fetchWithTimeout arms the abort timer and
\* issues the request
Send ==
    /\ cpc = "call"
    /\ cpc' = "inflight"
    /\ nreq' = nreq + 1
    /\ sentAt' = now
    /\ UNCHANGED <<now, ckind, resp, wakeAt, outcome, nlimited, error>>
    /\ UNCHANGED <<driverVars, detectVars, startVars, harnessVars>>

\* fetch rejects with a network error; fetchWithTimeout rethrows it
FetchFails ==
    /\ cpc = "inflight"
    /\ cpc' = "threw"
    /\ outcome' = "network"
    /\ UNCHANGED <<now, ckind, resp, wakeAt, nreq, sentAt, nlimited, error>>
    /\ UNCHANGED <<driverVars, detectVars, startVars, harnessVars>>

\* the timer of fetchWithTimeout fires before a response came:
\* controller.abort() makes fetch reject, fetchWithTimeout rethrows
Abort ==
    /\ cpc = "inflight"
    /\ now >= sentAt + TIMEOUT_MS
    /\ cpc' = "threw"
    /\ outcome' = "abort"
    /\ UNCHANGED <<now, ckind, resp, wakeAt, nreq, sentAt, nlimited, error>>
    /\ UNCHANGED <<driverVars, detectVars, startVars, harnessVars>>

\* the head of a response arrives before the abort timer is due: fetch
\* resolves, fetchWithTimeout clears the timer and returns `res`; the body
\* of the loop up to its next await (a sleep, or the read of the body)
Receive ==
    /\ cpc = "inflight"
    /\ now < sentAt + TIMEOUT_MS
    /\ \E res \in Responses :
          /\ rateLimited(res) => nreq < MaxRequests
          /\ resp' = res
          /\ IF rateLimited(res)
             THEN /\ cpc' = "sleep"
                  /\ wakeAt' = now + waitMs(res.reset[1], now)
                  /\ nlimited' = nlimited + 1
                  /\ UNCHANGED outcome
             ELSE IF notFound(res)
             THEN /\ cpc' = "returned" /\ outcome' = "404"
                  /\ UNCHANGED <<wakeAt, nlimited>>
             ELSE /\ cpc' = "body"
                  /\ UNCHANGED <<wakeAt, nlimited, outcome>>
    /\ UNCHANGED <<now, ckind, nreq, sentAt, error>>
    /\ UNCHANGED <<driverVars, detectVars, startVars, harnessVars>>

\* the body arrives: `await res.text()` of an error response, `await
\* res.json()` of a 2xx one, and the code after it up to the next await
ReadBody ==
    /\ cpc = "body"
    /\ IF ~ok(resp)
       THEN /\ cpc' = "threw" /\ outcome' = "status"
            /\ error' = errorMessage(resp)
            /\ UNCHANGED wakeAt
       ELSE IF variant = "restConc" /\ proportionalWait(resp, now) > 0
       THEN /\ cpc' = "dynsleep"
            /\ wakeAt' = now + proportionalWait(resp, now)
            /\ UNCHANGED <<outcome, error>>
       ELSE finish(resp) /\ UNCHANGED <<wakeAt, error>>
    /\ UNCHANGED <<now, ckind, resp, nreq, sentAt, nlimited>>
    /\ UNCHANGED <<driverVars, detectVars, startVars, harnessVars>>

\* the timer of the sleep of handleRateLimit fires: `continue`
Wake ==
    /\ cpc = "sleep"
    /\ now >= wakeAt
    /\ cpc' = "call"
    /\ UNCHANGED <<now, ckind, resp, wakeAt, nreq, outcome, sentAt, nlimited,
                   error>>
    /\ UNCHANGED <<driverVars, detectVars, startVars, harnessVars>>

\* the timer of the sleep of checkDynamicRateLimit fires
DynWake ==
    /\ cpc = "dynsleep"
    /\ now >= wakeAt
    /\ finish(resp)
    /\ UNCHANGED <<now, ckind, resp, wakeAt, nreq, sentAt, nlimited, error>>
    /\ UNCHANGED <<driverVars, detectVars, startVars, harnessVars>>

\* time passes; the clock is followed to MaxTime, to the end of a sleep, to
\* the moment the abort timer of a request in flight is due, and past that
\* moment while a body is awaited
Tick ==
    /\ cpc \notin {"off", "returned", "threw"}
    /\ \/ now < MaxTime
       \/ cpc \in {"sleep", "dynsleep"} /\ now < wakeAt
       \/ cpc = "inflight" /\ now < sentAt + TIMEOUT_MS
       \/ cpc = "body" /\ now <= sentAt + TIMEOUT_MS
    /\ now' = now + ClockStep
    /\ UNCHANGED <<cpc, ckind, resp, wakeAt, nreq, outcome, sentAt, nlimited,
                   error>>
    /\ UNCHANGED <<driverVars, detectVars, startVars, harnessVars>>

NextClient ==
    \/ Send
    \/ FetchFails
    \/ Abort
    \/ Receive
    \/ ReadBody
    \/ Wake
    \/ DynWake
    \/ Tick

SpecClient == InitClient /\ [][NextClient]_vars

\* the event loop runs a due timer (of a sleep, of fetchWithTimeout), a ready
\* request is issued, and time passes
FairSpecClient ==
    /\ SpecClient
    /\ WF_vars(Tick) /\ WF_vars(Wake) /\ WF_vars(Send) /\ WF_vars(Abort)

-----------------------------------------------------------------------------
(***************************************************************************)
(* The proactive throttling of restConc on its own: ghGET has a response   *)
(* in hand, at a time of the clock, and works through its branches down    *)
(* to checkDynamicRateLimit.  Durations are whole milliseconds, the        *)
(* quotient rounded down.                                                  *)
(***************************************************************************)
\* the values of x-ratelimit-remaining the throttling is run with
ThrottleRemaining == {<<>>, <<0>>, <<1>>, <<10>>, <<99>>, <<999>>, <<1000>>, <<4000>>}

\* the values of x-ratelimit-reset, in seconds
ThrottleResets == {<<>>, <<0>>, <<100>>}

\* the values of Date.now(), in milliseconds
ThrottleTimes == {0, 99000, 99900, 99950, 100000, 130000}

InitThrottle ==
    /\ variant = "restConc"
    /\ cfg = DefaultCfg
    /\ DriverOff /\ DetectIdle /\ ClientIdle /\ StartupIdle
    /\ NoiseIdle /\ LayerIdle /\ QueryIdle /\ ScanIdle
    /\ tpc = "response"
    /\ tres \in [status : Statuses, remaining : ThrottleRemaining,
                 reset : ThrottleResets, now : ThrottleTimes]
    /\ tslept = <<>>

throttleFrame ==
    UNCHANGED <<driverVars, detectVars, clientVars, startVars, noiseVars,
                layerVars, queryVars, scanVars>>

\* the branches of ghGET on a response, then
\* `await checkDynamicRateLimit(res)`; ghGraphQL differs in throwing for a
\* 404 as for any other failure
HandleResponse ==
    /\ tpc = "response"
    /\ IF rateLimited(tres)
       THEN tpc' = "retry" /\ UNCHANGED tslept
       ELSE IF tres.status = 404
       THEN tpc' = "returned" /\ UNCHANGED tslept
       ELSE IF ~ok(tres)
       THEN tpc' = "threw" /\ UNCHANGED tslept
       ELSE IF proportionalWait(tres, tres.now) > 0
       THEN /\ tslept' = <<proportionalWait(tres, tres.now)>>
            /\ tpc' = "sleeping"
       ELSE tpc' = "returned" /\ UNCHANGED tslept
    /\ UNCHANGED tres
    /\ throttleFrame

\* the timer of `await sleep(proportionalWait)` fires
ThrottleWake ==
    /\ tpc = "sleeping"
    /\ tpc' = "returned"
    /\ UNCHANGED <<tres, tslept>>
    /\ throttleFrame

NextThrottle ==
    \/ HandleResponse
    \/ ThrottleWake

SpecThrottle == InitThrottle /\ [][NextThrottle]_vars

-----------------------------------------------------------------------------
(***************************************************************************)
(* The run of the process around main(): start-up, requests, appends, end. *)
(***************************************************************************)
InitStartup ==
    /\ variant \in Variants
    /\ cfg = DefaultCfg
    /\ DriverOff /\ DetectIdle /\ ClientIdle /\ HarnessIdle
    /\ spc = "load"
    /\ env \in Environments
    /\ GITHUB_TOKEN = <<>>
    /\ exitCode = <<>>
    /\ csv \in InitialFiles
    /\ csvAtStart = csv
    /\ dirExists \in {csv.exists, TRUE}
    /\ bearers = <<>>

\* the module-level code: the token is picked; without one, process.exit(1)
LoadModule ==
    /\ spc = "load"
    /\ GITHUB_TOKEN' = selectToken(env)
    /\ IF ~truthy(selectToken(env))
       THEN spc' = "exited" /\ exitCode' = <<1>>
       ELSE spc' = "main" /\ UNCHANGED exitCode
    /\ UNCHANGED <<env, dirExists, csv, csvAtStart, bearers>>
    /\ UNCHANGED <<driverVars, detectVars, clientVars, harnessVars>>

\* the first statement of main(): ensureOutput(), then the header
StartMain ==
    /\ spc = "main"
    /\ dirExists' = TRUE
    /\ csv' = writeCsvHeaderIfNeeded(csv)
    /\ spc' = "running"
    /\ UNCHANGED <<env, GITHUB_TOKEN, exitCode, csvAtStart, bearers>>
    /\ UNCHANGED <<driverVars, detectVars, clientVars, harnessVars>>

\* fetchWithTimeout issues a request with `Authorization: Bearer <token>`
IssueRequest ==
    /\ spc = "running"
    /\ Len(bearers) < MaxHttp
    /\ bearers' = Append(bearers, GITHUB_TOKEN)
    /\ UNCHANGED <<spc, env, GITHUB_TOKEN, exitCode, dirExists, csv, csvAtStart>>
    /\ UNCHANGED <<driverVars, detectVars, clientVars, harnessVars>>

\* a qualifying repository is recorded
AppendRow(r) ==
    /\ spc = "running"
    /\ Len(csv.lines) < Len(writeCsvHeaderIfNeeded(csvAtStart).lines) + MaxAppends
    /\ csv' = appendCsvRow(csv, r)
    /\ UNCHANGED <<spc, env, GITHUB_TOKEN, exitCode, dirExists, csvAtStart,
                   bearers>>
    /\ UNCHANGED <<driverVars, detectVars, clientVars, harnessVars>>

\* main() rejects: `main().catch(...)` logs and calls process.exit(1)
MainRejects ==
    /\ spc = "running"
    /\ spc' = "exited"
    /\ exitCode' = <<1>>
    /\ UNCHANGED <<env, GITHUB_TOKEN, dirExists, csv, csvAtStart, bearers>>
    /\ UNCHANGED <<driverVars, detectVars, clientVars, harnessVars>>

\* main() reaches its end: the summary is printed and the process ends
Summary ==
    /\ spc = "running"
    /\ spc' = "exited"
    /\ exitCode' = <<0>>
    /\ UNCHANGED <<env, GITHUB_TOKEN, dirExists, csv, csvAtStart, bearers>>
    /\ UNCHANGED <<driverVars, detectVars, clientVars, harnessVars>>

NextStartup ==
    \/ LoadModule
    \/ StartMain
    \/ IssueRequest
    \/ \E r \in Repos : AppendRow(r)
    \/ MainRejects
    \/ Summary

SpecStartup == InitStartup /\ [][NextStartup]_vars

-----------------------------------------------------------------------------
(***************************************************************************)
(* Properties.                                                             *)
(***************************************************************************)

\* the tasks whose processRepository promise has not settled
TasksInFlight == {t \in DOMAIN tasks : tasks[t].st = "running"}
\* the tasks that were started and whose finally callback has not run
TasksNotFinished == {t \in DOMAIN tasks : tasks[t].st \in {"running", "settled"}}
\* a search request is issued in this step
FetchStarts == pc = "page" /\ pc' = "fetching"
\* a detectTech call begins in this step
AnalysisStarts == \E r \in Repos : detectCount'[r] # detectCount[r]

\* C1: in every generation, for any pages over all queries, detectTech is
\* started at most once per repository identity and at most one row is
\* appended per identity, also when the items of a page run as interleaved
\* tasks and an identity occurs twice on a page or on pages of two queries.
C1_AtMostOncePerIdentity ==
    /\ \A r \in Repos : detectCount[r] <= 1
    /\ \A i, j \in 1..Len(rows) : rows[i] = rows[j] => i = j

\* restConc: an identity twice on one page; the first occurrence is being
\* analysed, the second has come back without an analysis
C1_Witness ==
    /\ variant = "restConc"
    /\ pc = "wait"
    /\ Len(items) >= 2
    /\ items[1] = items[2]
    /\ tasks[1].st = "running"
    /\ tasks[2].st = "done"
    /\ detectCount[items[1]] = 1

\* C2, as the specification states it: in restConc the tasks started and not
\* yet settled are at most CONCURRENT_REPOS, and the running counter always
\* equals their number and is never negative.
C2_RunningEqualsInFlight ==
    /\ Cardinality(TasksInFlight) <= cfg.CONCURRENT_REPOS
    /\ running = Cardinality(TasksInFlight)
    /\ running >= 0

\* C2, as the code has it: the tasks started and not yet settled are at most
\* CONCURRENT_REPOS; the running counter equals the number of tasks started
\* whose finally callback has not yet run, so it is at least the number of
\* unsettled tasks, at most CONCURRENT_REPOS and never negative.
C2_RunningCountsNotFinished ==
    /\ Cardinality(TasksInFlight) <= cfg.CONCURRENT_REPOS
    /\ running = Cardinality(TasksNotFinished)
    /\ Cardinality(TasksInFlight) <= running
    /\ running >= 0
    /\ running <= cfg.CONCURRENT_REPOS

\* restConc: every slot is taken by a task in flight while a task waits
C2_Witness ==
    /\ variant = "restConc"
    /\ pc = "wait"
    /\ Cardinality(TasksInFlight) = cfg.CONCURRENT_REPOS
    /\ running = cfg.CONCURRENT_REPOS
    /\ queue # <<>>
    /\ \E t \in DOMAIN tasks : tasks[t].st = "done"

\* C3: after a 403 response with x-ratelimit-remaining '0' and
\* x-ratelimit-reset T, ghGET / ghGraphQL issues the retry not before T plus
\* the 5 s margin, and the retry is eventually issued.
C3_Backoff ==
    /\ [][(cpc = "call" /\ cpc' = "inflight" /\ rateLimited(resp)) =>
              now >= resp.reset[1] * 1000 + 5000]_vars
    /\ (cpc = "sleep") ~> (cpc = "inflight")

\* the retry is in flight after a sleep that ended at T plus the margin
C3_Witness ==
    /\ cpc = "inflight"
    /\ nreq = 2
    /\ rateLimited(resp)
    /\ resp.reset[1] > 0
    /\ wakeAt = resp.reset[1] * 1000 + 5000
    /\ now >= wakeAt

\* C4: a repository whose hasTS is false at the end of detection is never
\* kept, whatever its other signals and the switches; likewise one whose
\* hasReact is false.
C4_NeedsTSAndReact ==
    (dpc = "done" /\ kept) => (tech.hasTS /\ tech.hasReact)

\* gqlFilters with both switches off: React and Jest found, no TypeScript,
\* not kept
C4_Witness ==
    /\ dpc = "done"
    /\ variant = "gqlFilters"
    /\ ~cfg.REQUIRE_FRONTEND_TESTS
    /\ ~cfg.EXCLUDE_COURSE_BOILERPLATE
    /\ ~tech.hasTS
    /\ tech.hasReact
    /\ tech.hasJest
    /\ ~kept

\* C5, as the specification states it: in every generation and for every
\* REQUIRE_FRONTEND_TESTS a repository is kept only if hasTS, hasReact and
\* hasJest are all true, and restSeq and restConc also require
\* hasFrontendTestLibs.
C5_AllSignalsRequired ==
    (dpc = "done" /\ kept) =>
        /\ tech.hasTS
        /\ tech.hasReact
        /\ tech.hasJest
        /\ variant \in {"restSeq", "restConc"} => tech.hasFrontendTestLibs

\* C5, as the code has it: a kept repository has hasTS and hasReact; it has
\* hasJest in every generation but gqlFilters; restSeq and restConc also
\* require hasFrontendTestLibs; gqlFilters requires, only when
\* REQUIRE_FRONTEND_TESTS is on, Jest or a Testing Library package.
C5_QualificationRule ==
    (dpc = "done" /\ kept) =>
        /\ tech.hasTS
        /\ tech.hasReact
        /\ variant # "gqlFilters" => tech.hasJest
        /\ variant \in {"restSeq", "restConc"} => tech.hasFrontendTestLibs
        /\ (variant = "gqlFilters" /\ cfg.REQUIRE_FRONTEND_TESTS) =>
               (tech.hasJest \/ "testing-library" \in Range(tech.feLibs))

\* gqlFilters with REQUIRE_FRONTEND_TESTS on keeps a repository that has
\* Testing Library and no Jest
C5_Witness ==
    /\ dpc = "done"
    /\ kept
    /\ variant = "gqlFilters"
    /\ cfg.REQUIRE_FRONTEND_TESTS
    /\ ~tech.hasJest
    /\ "testing-library" \in Range(tech.feLibs)

\* C6: with EXCLUDE_COURSE_BOILERPLATE on, a repository the noise filter
\* classifies as course, boilerplate or template is never kept, whatever its
\* technology signals.
C6_NoiseExcluded ==
    (dpc = "done" /\ cfg.EXCLUDE_COURSE_BOILERPLATE /\ courseFlag) => ~kept

\* a repository with every technology signal, classified as noise, not kept
C6_Witness ==
    /\ dpc = "done"
    /\ cfg.EXCLUDE_COURSE_BOILERPLATE
    /\ courseFlag
    /\ tech.hasTS /\ tech.hasReact /\ tech.hasJest /\ tech.hasFrontendTests
    /\ ~kept

\* C7: restSeq and restConc never request a page beyond
\* ceil(min(total_count, 1000) / BATCH_SIZE), total_count being that of the
\* page fetched before; with BATCH_SIZE 100 that is at most 10 pages a query.
C7_PageCeiling ==
    (variant \in OffsetVariants /\ pc = "fetching") =>
        /\ page > 1 =>
              (page - 1) * cfg.BATCH_SIZE <
                  (IF result.total_count < SEARCH_API_CAP
                   THEN result.total_count ELSE SEARCH_API_CAP)
        /\ cfg.BATCH_SIZE = DEFAULT_BATCH_SIZE => (page <= 10 /\ fetched <= 10)

\* the tenth page of a query is requested, total_count being above the cap
C7_Witness ==
    /\ variant \in OffsetVariants
    /\ pc = "fetching"
    /\ cfg.BATCH_SIZE = DEFAULT_BATCH_SIZE
    /\ result.total_count > SEARCH_API_CAP
    /\ page = 10

\* C8: once stopRequested is set, no search page is fetched and no analysis
\* of a repository begins, in every generation with the flag, restConc with
\* its items queued in the limiter included.
C8_StopHaltsNewWork ==
    [][stopRequested => (~FetchStarts /\ ~AnalysisStarts)]_vars

\* C9: detectTech never throws or rejects, whatever request fails.
C9_DetectTechNeverThrows == dpc # "caught"

\* C10: in the generations with MAX_QUALIFIED, the rows appended never exceed
\* MAX_QUALIFIED, and once they have reached it no search page is fetched
\* and no analysis is started.
C10_QualifiedCap ==
    /\ [](variant \in FlagVariants => Len(rows) <= cfg.MAX_QUALIFIED)
    /\ [][(variant \in FlagVariants /\ Len(rows) >= cfg.MAX_QUALIFIED) =>
              (~FetchStarts /\ ~AnalysisStarts)]_vars

\* the run has ended on MAX_QUALIFIED with a query still to run
C10_Witness ==
    /\ variant \in FlagVariants
    /\ pc = "done"
    /\ Len(rows) = cfg.MAX_QUALIFIED
    /\ reachedLimit
    /\ ~stopRequested
    /\ qi <= NumQueries

(***************************************************************************)
(* C11  With MAX_ANALYZED = N > 0, in every generation that has the limit, *)
(* technology detection is run on at most N distinct repositories in one   *)
(* run.                                                                    *)
(***************************************************************************)
Detected == {r \in Repos : detectCount[r] > 0}

C11_AnalyzedCap ==
    (variant \in FlagVariants /\ cfg.MAX_ANALYZED > 0) =>
        Cardinality(Detected) <= cfg.MAX_ANALYZED

\* the same bound restricted to the generations that test the limit per item
C11_AnalyzedCapSequential ==
    (variant \in FlagVariants \ {"restConc"} /\ cfg.MAX_ANALYZED > 0) =>
        Cardinality(Detected) <= cfg.MAX_ANALYZED

(***************************************************************************)
(* C12  When fetching a search page fails, only the pagination of the      *)
(* current query is abandoned: rows already appended are kept, and unless  *)
(* a global limit or the stop flag is set the driver goes on to fetch the  *)
(* first page of the next query in the list.                               *)
(***************************************************************************)
C12_FetchFailureSkipsQuery ==
    /\ [][pc = "caught" =>
              /\ pc' = "query" /\ qi' = qi + 1
              /\ page' = 1 /\ after' = 0 /\ fetched' = 0
              /\ UNCHANGED <<rows, totalQualified, processed, reachedLimit,
                             stopRequested>>]_vars
    /\ [][(pc = "query" /\ qi <= NumQueries /\ ~flagBreak(reachedLimit)) =>
              (pc' = "page" \/ stopRequested')]_vars
    /\ [][(pc = "page" /\ fetched = 0 /\ ~flagBreak(reachedLimit)) =>
              ((FetchStarts /\ page = 1 /\ after = 0) \/ stopRequested')]_vars

\* a page fetch of the first query has failed after a row was appended, and
\* neither a limit nor the stop flag is set
C12_Witness ==
    /\ pc = "caught"
    /\ qi < NumQueries
    /\ rows # <<>>
    /\ ~reachedLimit
    /\ ~stopRequested

(***************************************************************************)
(* The detector helpers built on ghGET.  `r` is what ghGET returned:       *)
(* {status: 404} (data undefined) or {status, data}, where data is null    *)
(* when the body was not JSON.  The payloads a 200 can carry are told      *)
(* apart by shape only.                                                    *)
(***************************************************************************)
Payloads == {"null", "object", "array", "base64 file", "names object"}

\* the value ghGET returns when the call of the harness has returned
ghGETReturn(d) ==
    IF outcome = "404"
    THEN [status |-> 404, data |-> "undefined"]
    ELSE [status |-> resp.status, data |-> d]

\* `status !== 200 || !data`
noData(r) == r.status # 200 \/ r.data \in {"undefined", "null"}

getRepoLanguages(r) == IF noData(r) THEN "{}" ELSE r.data

getRepoTopics(r) ==
    IF noData(r) THEN "[]"
    ELSE IF r.data = "names object" THEN "names" ELSE "[]"

getRepoContent(r) ==
    IF noData(r) THEN "null"
    ELSE IF r.data = "base64 file" THEN "decoded text" ELSE "null"

getRepoReadme(r) ==
    IF noData(r) THEN ""
    ELSE IF r.data = "base64 file" THEN "decoded text" ELSE ""

\* searchForTestFiles / searchDirectoryForReactTests: whether the listing of
\* a directory is descended into
listingUsed(r) == r.status = 200 /\ r.data = "array"

(***************************************************************************)
(* C13  A 404 response to ghGET is returned to the caller as the result    *)
(* {status: 404} and never as a thrown error, and every detector helper    *)
(* built on it (languages, topics, file content, README, directory         *)
(* listing) maps it to its "absent" value (empty object, empty list, null  *)
(* or empty string), so that the signal layer is skipped.                  *)
(***************************************************************************)
C13_NotFoundIsAbsent ==
    (ckind = "GET" /\ resp.status = 404) =>
        /\ cpc = "returned"
        /\ outcome = "404"
        /\ error = NoError
        /\ \A d \in Payloads :
              /\ ghGETReturn(d) = [status |-> 404, data |-> "undefined"]
              /\ getRepoLanguages(ghGETReturn(d)) = "{}"
              /\ getRepoTopics(ghGETReturn(d)) = "[]"
              /\ getRepoContent(ghGETReturn(d)) = "null"
              /\ getRepoReadme(ghGETReturn(d)) = ""
              /\ ~listingUsed(ghGETReturn(d))

\* a ghGET was answered 404 on its second request, after a rate-limit sleep
C13_Witness ==
    /\ ckind = "GET"
    /\ resp.status = 404
    /\ cpc = "returned"
    /\ nreq = 2

(***************************************************************************)
(* C14  A single ghGET or ghGraphQL call issues exactly 1 + k HTTP         *)
(* requests, where k is the number of responses it received that were 403  *)
(* with x-ratelimit-remaining "0" and an x-ratelimit-reset header; a 403   *)
(* that lacks remaining "0" or lacks the reset header is not retried and   *)
(* is surfaced to the caller as an error.                                  *)
(***************************************************************************)
C14_OneRequestPerRateLimitResponse ==
    /\ cpc \in {"returned", "threw"} => nreq = 1 + nlimited
    /\ cpc \in {"inflight", "body", "dynsleep"} => nreq = 1 + nlimited
    /\ cpc \in {"sleep", "call"} => nreq = nlimited
    /\ (resp.status = 403 /\ (resp.remaining # <<0>> \/ resp.reset = <<>>)) =>
          \/ cpc = "body"
          \/ cpc = "threw" /\ outcome = "status" /\ error.status = 403

\* a call has ended after two rate-limit responses and a third request
C14_Witness ==
    /\ cpc \in {"returned", "threw"}
    /\ nlimited = 2
    /\ nreq = 3

\* a call has ended on a 403 that carried a reset header but quota left
C14_WitnessForbidden ==
    /\ cpc = "threw"
    /\ resp.status = 403
    /\ resp.remaining = <<10>>
    /\ resp.reset # <<>>
    /\ nreq = 1

(***************************************************************************)
(* C15  The HTTP client retries a request that was answered with status    *)
(* 429 in the same way as a 403 with exhausted quota: it sleeps until the  *)
(* reset time and reissues the request instead of surfacing an error.      *)
(***************************************************************************)
C15_TooManyRequestsRetried ==
    (resp.status = 429 /\ resp.remaining = <<0>> /\ resp.reset # <<>>) =>
        ~(cpc = "threw" /\ outcome = "status")

(***************************************************************************)
(* C16  Every failure other than the rate-limit case is surfaced to the    *)
(* immediate caller of ghGET/ghGraphQL after exactly one request, with no  *)
(* retry at the client layer: a response with a non-2xx status other than  *)
(* 404 makes the call throw an error carrying the status code, the status  *)
(* text and a truncated response body, and a request that exceeds the      *)
(* timeout is aborted and its failure propagates.                          *)
(***************************************************************************)
Outstanding == cpc \in {"inflight", "body"}

TimedOut == Outstanding /\ now >= sentAt + TIMEOUT_MS

\* the part about error responses: thrown once, with status, status text and
\* the body cut to 300 (500) characters, and nothing is issued afterwards
C16_ErrorResponsesThrown ==
    /\ [](cpc = "threw" =>
            /\ nreq = 1 + nlimited
            /\ outcome = "status" =>
                  /\ ~ok(resp)
                  /\ error.status = resp.status
                  /\ error.statusText = statusText(resp.status)
                  /\ error.body <= resp.body
                  /\ error.body <= 500
                  /\ resp.body <= 300 => error.body = resp.body)
    /\ []((~ok(resp) /\ resp.status # 0 /\ ~rateLimited(resp)
             /\ ~(ckind = "GET" /\ resp.status = 404)) =>
            (cpc = "body" \/ (cpc = "threw" /\ outcome = "status")))
    /\ [][cpc = "threw" => UNCHANGED vars]_vars
    /\ [][(cpc = "body" /\ ~ok(resp)) =>
              (cpc' = "threw" \/ UNCHANGED <<cpc, nreq, resp>>)]_vars

C16_FailuresSurfaceWithoutRetry ==
    /\ C16_ErrorResponsesThrown
    /\ TimedOut ~> (cpc = "threw" /\ outcome \in {"abort", "network"})

\* a long error body has been cut
C16_WitnessTruncated ==
    /\ cpc = "threw"
    /\ outcome = "status"
    /\ resp.status = 500
    /\ resp.body = LongBody
    /\ error.body < resp.body

\* the head of a response came in time, the body has not come when the
\* timeout has passed, and no timer is armed
C16_WitnessStalledBody ==
    /\ cpc = "body"
    /\ now >= sentAt + TIMEOUT_MS

(***************************************************************************)
(* C17  Every repository whose analysis completes with a qualifying result *)
(* has its output row appended exactly once in that run: never twice and   *)
(* never dropped, including in the concurrent generation when              *)
(* MAX_QUALIFIED is reached or the stop flag is set while other results of *)
(* the same batch are still waiting to be written.                         *)
(***************************************************************************)
NoDuplicateRows == \A i, j \in DOMAIN rows : rows[i] = rows[j] => i = j

\* the write loop of the page has run
BatchWritten == pc = "wait" /\ pc' # "wait"

C17_QualifyingRowWrittenOnce ==
    /\ []NoDuplicateRows
    /\ [][BatchWritten =>
            \A t \in DOMAIN tasks :
                tasks[t].res # <<>> => tasks[t].res[1] \in Range(rows')]_vars

\* the part that holds: no row is written twice
C17_NeverTwice == NoDuplicateRows

(***************************************************************************)
(* C18  The output file is append-only during a run: the header line is    *)
(* written only when the file does not exist at start-up, content present  *)
(* before the run is never rewritten, removed or deduplicated, and after   *)
(* every step the file content is an extension of its content at every     *)
(* earlier step by whole row lines, also when a later stage fails.         *)
(***************************************************************************)
IsPrefix(s, t) == Len(s) <= Len(t) /\ SubSeq(t, 1, Len(s)) = s

\* the lines of t after the first Len(s)
Added(s, t) == {t[i] : i \in (Len(s) + 1)..Len(t)}

C18_AppendOnly ==
    /\ [](/\ csvAtStart.exists => csv.exists
          /\ IsPrefix(csvAtStart.lines, csv.lines)
          /\ csvAtStart.exists =>
                \A l \in Added(csvAtStart.lines, csv.lines) : l.kind = "row")
    /\ [][/\ csv.exists => csv'.exists
          /\ IsPrefix(csv.lines, csv'.lines)
          /\ csv.exists => \A l \in Added(csv.lines, csv'.lines) : l.kind = "row"
          /\ ~csv.exists => csv' \in {csv, [exists |-> TRUE, lines |-> <<Header>>]}
         ]_vars

\* a run on a file that earlier runs left with a duplicated row has appended
\* that row once more and has then failed
C18_Witness ==
    /\ csvAtStart.lines = <<Header, csvLine(1), csvLine(1)>>
    /\ csv.lines = <<Header, csvLine(1), csvLine(1), csvLine(1)>>
    /\ spc = "exited"
    /\ exitCode = <<1>>

(***************************************************************************)
(* C19  When none of GITHUB_TOKEN, PAT, GH_TOKEN holds a non-empty value,  *)
(* the process terminates with a non-zero exit code before any HTTP        *)
(* request is issued and before the output file is created or modified;    *)
(* when at least one is set, the first non-empty one in that order is used *)
(* as the bearer credential.                                               *)
(***************************************************************************)
NonEmpty == {i \in DOMAIN EnvNames : env[EnvNames[i]] \notin {<<>>, <<"">>}}

C19_TokenOrExit ==
    /\ [](NonEmpty = {} =>
            /\ spc \in {"load", "exited"}
            /\ spc = "exited" => exitCode = <<1>>
            /\ bearers = <<>>
            /\ csv = csvAtStart)
    /\ [][(NonEmpty = {} /\ spc = "load") =>
              (spc' = "exited" /\ UNCHANGED <<csv, dirExists, bearers>>)]_vars
    /\ [](NonEmpty # {} =>
            /\ spc # "load" => GITHUB_TOKEN = env[EnvNames[Min(NonEmpty)]]
            /\ \A i \in DOMAIN bearers :
                  bearers[i] = env[EnvNames[Min(NonEmpty)]]
            /\ (spc = "exited" /\ exitCode = <<1>>) => csv.exists)

\* no variable holds a value, one of them is set to the empty string, and the
\* process has exited
C19_Witness ==
    /\ NonEmpty = {}
    /\ env[EnvNames[1]] = <<"">>
    /\ spc = "exited"

\* GITHUB_TOKEN is empty, PAT and GH_TOKEN hold values, and two requests have
\* been issued
C19_WitnessSecond ==
    /\ env[EnvNames[1]] = <<"">>
    /\ 2 \in NonEmpty /\ 3 \in NonEmpty
    /\ Len(bearers) = 2

(***************************************************************************)
(* The run under a scheduler that keeps going: the event loop runs every   *)
(* continuation that is ready, and every outstanding search request and    *)
(* every analysis in flight ends (with a page, a result or an error).      *)
(* Signals are the environment's and are not forced.                       *)
(***************************************************************************)
Continue ==
    \/ NextQuery
    \/ LeaveLoop
    \/ SendSearch
    \/ SearchFails
    \/ SearchCatch
    \/ ReceivePage
    \/ StartItem
    \/ FinishItem
    \/ AfterItems
    \/ AddTasks
    \/ \E t \in DOMAIN tasks : TaskSettle(t)
    \/ \E t \in DOMAIN tasks : TaskFinally(t)
    \/ WriteResults

\* the limits under which the fair run is explored: the smallest quota, and
\* the analysed limit off or at 1
FairConfigs(v) ==
    {c \in LimitConfigs(v) :
        /\ v \in FlagVariants => c.MAX_QUALIFIED = 1
        /\ c.MAX_ANALYZED <= 1}

FairInit == Init /\ cfg \in FairConfigs(variant)

FairSpec == FairInit /\ [][Next]_vars /\ WF_vars(Continue)

(***************************************************************************)
(* C20  Whenever a run ends early because MAX_QUALIFIED or MAX_ANALYZED    *)
(* was reached, because the stop flag was set, or because page fetches     *)
(* failed, and provided every outstanding request eventually gets a        *)
(* response that is not a rate-limit exhaustion, the run eventually        *)
(* reaches the summary step that reports the number of repositories        *)
(* analysed and the number qualified.                                      *)
(***************************************************************************)
C20_EarlyEndReachesSummary ==
    /\ (reachedLimit \/ stopRequested \/ pc = "caught") ~> (pc = "done")
    /\ [](pc = "done" =>
            /\ totalQualified = Len(rows)
            /\ Detected \subseteq processed)
    /\ [][pc = "done" => UNCHANGED <<pc, processed, totalQualified, rows>>]_vars

\* the summary has been reached with the stop flag set, before the last query
C20_Witness ==
    /\ pc = "done"
    /\ stopRequested
    /\ qi <= NumQueries
    /\ processed # {}

-----------------------------------------------------------------------------
\* the manifest parsed and lists React, a Jest package or script, and a
\* test library
manifestHasAll(pkgJson) ==
    /\ pkgJson.st = "ok"
    /\ pkgHasAnyDep(pkgJson, ReactPackages)
    /\ pkgHasAnyDep(pkgJson, JestPackages) \/ scriptsContain(pkgJson)
    /\ pkgHasAnyDep(pkgJson, RTLPackages \cup {"enzyme"})

-----------------------------------------------------------------------------
\* the manifest lists none of the recognised test libraries
noTestLibInManifest(pkgJson) ==
    pkgJson.st # "ok" \/ ~pkgHasAnyDep(pkgJson, RTLPackages \cup {"enzyme"})

\* a *.test.tsx file with the render import of Testing Library
IsRenderTest(f) == f.name = "App.test.tsx" /\ f.content = RenderImport

\* a directory the scan lists: one of src, __tests__, test, tests or at most
\* two levels below one of them, not below a node_modules or .git
Scanned(dir) ==
    /\ Len(dir) \in 1..3
    /\ dir[1] \in {"src", "__tests__", "test", "tests"}
    /\ \A i \in 2..Len(dir) : dir[i] \notin {"node_modules", ".git"}

\* the source scan has set the frontend-test-library signal: the evidence
\* 'test-files' is the last one recorded and no manifest evidence is
scanPathTaken(t) ==
    /\ t.hasFrontendTestLibs
    /\ t.hasFrontendTests
    /\ t.feLibs # <<>>
    /\ t.feLibs[Len(t.feLibs)] = "test-files"
    /\ Range(t.feLibs) \cap {"testing-library", "enzyme"} = {}

\* C22 as stated: with framework and test runner found and no test library
\* in the manifest, a *.test.tsx file with the render import anywhere in the
\* repository makes detection set the frontend-test-library signal through
\* the source scan.
C22_ScanFindsFileAnywhere ==
    [][(/\ Detect /\ variant \in ScanVariants
        /\ ~tech'.threw /\ tech'.hasReact /\ tech'.hasJest
        /\ noTestLibInManifest(da.pkg)
        /\ \E f \in da.scan : IsRenderTest(f))
         => scanPathTaken(tech')]_vars

\* C22, amended: the same for a file that lies in one of the directories the
\* scan lists (src, __tests__, test or tests, or at most two levels below,
\* outside node_modules and .git).
C22_ScanFindsFileInScannedDirs ==
    [][(/\ Detect /\ variant \in ScanVariants
        /\ ~tech'.threw /\ tech'.hasReact /\ tech'.hasJest
        /\ noTestLibInManifest(da.pkg)
        /\ \E f \in da.scan : IsRenderTest(f) /\ Scanned(f.dir))
         => scanPathTaken(tech')]_vars

\* the scan has found the test file of a repository whose manifest has React
\* and Jest and no test library
C22_Witness ==
    /\ variant \in ScanVariants
    /\ dpc = "decide"
    /\ tech.hasReactDeps /\ tech.hasJest
    /\ tech.hasFrontendTestLibs
    /\ tech.feLibs = <<"jest", "test-files">>

-----------------------------------------------------------------------------
\* the two characters are the same letter, whatever their case
SameLetter(x, y) == toLowerCaseChar(x) = toLowerCaseChar(y)

\* the keyword occurs in the first n characters of the text, in any casing
OccursWithin(k, text, n) ==
    \E i \in 1..Len(text) :
        /\ i + Len(k) - 1 <= Len(text)
        /\ i + Len(k) - 1 <= n
        /\ \A j \in 1..Len(k) : SameLetter(text[i + j - 1], k[j])

Occurs(k, text) == OccursWithin(k, text, Len(text))

\* the keywords an environment value adds: its comma-separated items without
\* the blanks around them, the empty ones left out
ExtraOf(value) == {k \in {trim(p) : p \in Range(split(value))} : k # <<>>}

KeywordsOf(c) ==
    Range(COURSE_KEYWORDS_DEFAULT) \cup Range(BOILERPLATE_KEYWORDS_DEFAULT)
    \cup ExtraOf(c.COURSE_KEYWORDS) \cup ExtraOf(c.BOILERPLATE_KEYWORDS)

MetadataMatches(in) ==
    \E k \in KeywordsOf(in.c) :
        \/ Occurs(k, in.name)
        \/ Occurs(k, in.description)
        \/ Occurs(k, join(in.topics))

ReadmeMatches(in) ==
    /\ in.readme.st = "ok"
    /\ \E k \in KeywordsOf(in.c) : OccursWithin(k, in.readme.text, README_SLICE)

\* C23: the classification is true exactly when the name, the description
\* or the space-joined topic list contains, in any casing, a keyword of the
\* course or boilerplate list (defaults and environment extras), or when
\* there is no such match, README_COURSE_CHECK is enabled and the first 4000
\* characters of the README contain one; 'react-bootcamp-2023' is noise and
\* 'acme-dashboard' without matching description, topics or keywords is not.
C23_NoiseIffKeywordOccurs ==
    npc = "returned" =>
        /\ nout <=> \/ MetadataMatches(nin)
                    \/ nin.c.README_COURSE_CHECK /\ ReadmeMatches(nin)
        /\ nin.name = ReactBootcamp => nout
        /\ (/\ nin.name = AcmeDashboard /\ nin.description = <<>>
            /\ nin.topics = <<>> /\ nin.c.COURSE_KEYWORDS = <<>>
            /\ nin.c.BOILERPLATE_KEYWORDS = <<>>
            /\ ~nin.c.README_COURSE_CHECK) => ~nout

\* a repository classified as noise for the upper-case keyword of its
\* description alone
C23_Witness ==
    /\ npc = "returned" /\ nout
    /\ nin.name = AcmeDashboard /\ nin.description = MyTemplates
    /\ nin.topics = <<>> /\ nin.c.COURSE_KEYWORDS = <<>>

\* a repository classified as noise for its README alone, whose keyword ends
\* at character 4000
C23_WitnessReadme ==
    /\ npc = "returned" /\ nout
    /\ ~MetadataMatches(nin)
    /\ Len(nin.readme.text) = README_SLICE

\* a repository not classified as noise although its README holds a keyword
\* that ends after character 4000
C23_WitnessPastSlice ==
    /\ npc = "returned" /\ ~nout
    /\ nin.c.README_COURSE_CHECK
    /\ Len(nin.readme.text) > README_SLICE

-----------------------------------------------------------------------------
\* C24: detectTech is deterministic in the API's answers: whatever an earlier
\* call left behind, every call ends as the answers alone determine, so two
\* calls with identical answers return identical signals, with the same
\* list of detected libraries in the same order.
C24_DetectTechDeterministic ==
    /\ \A i \in DOMAIN runs : runs[i].r = detectTech(variant, runs[i].a)
    /\ \A i, j \in DOMAIN runs : runs[i].a = runs[j].a => runs[i].r = runs[j].r

\* two calls with the same answers have returned a list of two libraries
\* after a call for a repository with other answers and another list
C24_Witness ==
    /\ Len(runs) = MaxCalls
    /\ runs[1].a # runs[2].a /\ runs[2].a = runs[3].a
    /\ runs[1].r.feLibs = <<"testing-library", "jest">>
    /\ runs[2].r.feLibs = <<"jest", "test-files">>
    /\ runs[3].r.feLibs = <<"jest", "test-files">>

\* the four signals and the combined one do not go from true to false
NeverDowngraded ==
    /\ sig.hasTS => sig'.hasTS
    /\ sig.hasReact => sig'.hasReact
    /\ sig.hasJest => sig'.hasJest
    /\ sig.hasFrontendTestLibs => sig'.hasFrontendTestLibs
    /\ sig.hasFrontendTests => sig'.hasFrontendTests

\* C25: within one execution of detectTech (every step but the call that
\* declares the locals) hasTS, hasReact, hasJest and hasFrontendTestLibs
\* only change from false to true, hence at most once, and hasFrontendTests,
\* once the manifest layer has set it, is still true when returned.
C25_SignalsNeverDowngraded ==
    [][lpc' # "langs" => NeverDowngraded]_vars

\* a call has returned with the framework and the frontend tests found by
\* the manifest alone, the later layers having run without a topic
C25_Witness ==
    /\ lpc = "returned"
    /\ sig.hasReactDeps /\ sig.hasReact /\ sig.topics = {}
    /\ sig.hasJest /\ sig.hasFrontendTestLibs /\ sig.hasFrontendTests
    /\ "test-files" \notin Range(sig.feLibs)

-----------------------------------------------------------------------------
\* the tasks that have been started
Started(ts) == {t \in DOMAIN ts : ts[t].st # "queued"}

\* the tasks started are the first ones added and the queue holds the others
\* in the order they were added
StartedInOrderAdded ==
    LET k == Cardinality(Started(tasks))
    IN  /\ Started(tasks) = 1..k
        /\ queue = [i \in 1..(Len(tasks) - k) |-> k + i]

\* a finally callback runs in this step
Completes == \E t \in DOMAIN tasks : tasks[t].st # "done" /\ tasks'[t].st = "done"

\* C26: the ConcurrencyLimiter starts tasks in the order in which they were
\* added, and the step in which a task that settled (fulfilled or rejected)
\* completes starts the task at the head of the queue, if there is one;
\* nothing orders the completions.
C26_FifoDispatch ==
    [][/\ StartedInOrderAdded'
       /\ Started(tasks) \subseteq Started(tasks')
       /\ (Completes /\ queue # <<>>)
            => /\ Head(queue) \in Started(tasks')
               /\ queue' = Tail(queue)]_vars

\* the second task added has completed by rejection while the first still
\* runs, and the third, the head of the queue, was started in its place
C26_Witness ==
    /\ pc = "limiter"
    /\ Len(tasks) = MaxTasks
    /\ tasks[1].st = "running"
    /\ tasks[2].st = "done" /\ tasks[2].res = <<>>
    /\ tasks[3].st = "running"
    /\ queue = <<4>>

-----------------------------------------------------------------------------
\* the time window j - 1 quarters before the quarter of the date, as the
\* search qualifier that spans it from its first to its last day
WindowBack(today, j) ==
    LET q == 4 * today.year + (today.month \div 3) - (j - 1)
        y == q \div 4
        first == 3 * (q % 4) + 1
        days == IF q % 4 \in {0, 3} THEN 31 ELSE 30
    IN  <<"p", "u", "s", "h", "e", "d", ":">> \o String(y) \o <<"-">> \o padStart2(String(first)) \o <<"-", "0", "1", ".", ".">>
        \o String(y) \o <<"-">> \o padStart2(String(first + 2))
        \o <<"-">> \o String(days)

\* the exclusion terms that the setting holds
ExcludeTerms(c) == trim(c.EXCLUDE_TOPICS)

\* C27: buildQueries returns one query per base fragment and time window,
\* 3 x QUARTERS_COUNT in all, base fragment first and within a base from
\* the current quarter backwards; every query contains 'fork:false' and
\* 'archived:false', and the EXCLUDE_TOPICS terms follow only when the
\* setting is not empty.
C27_QueriesBuilt ==
    bpc = "returned" =>
        LET n == bin.c.QUARTERS_COUNT
        IN  /\ Len(queries) = 3 * n
            /\ \A i \in 1..Len(queries) :
                  /\ includes(queries[i], ForkFalse)
                  /\ includes(queries[i], ArchivedFalse)
            /\ \A b \in 1..3 : \A j \in 1..n :
                  queries[(b - 1) * n + j] =
                      BASES[b] \o <<" ">> \o WindowBack(bin.today, j)
                      \o <<" ", "f", "o", "r", "k", ":", "f", "a", "l", "s", "e", " ", "a", "r", "c", "h", "i", "v", "e", "d", ":", "f", "a", "l", "s", "e">>
                      \o (IF ExcludeTerms(bin.c) = <<>> THEN <<>>
                          ELSE <<" ">> \o ExcludeTerms(bin.c))

\* the queries of a run in February with exclusion terms set: the windows
\* go back into the year before
C27_Witness ==
    /\ bpc = "returned"
    /\ bin.today.month = 1
    /\ bin.c.QUARTERS_COUNT = MaxQuarters
    /\ Len(queries) = 3 * MaxQuarters
    /\ ExcludeTerms(bin.c) # <<>>
    /\ includes(queries[2], ExcludeTerms(bin.c))

\* the queries of a run whose EXCLUDE_TOPICS holds blanks only: they end
\* with 'archived:false'
C27_WitnessNoTerms ==
    /\ bpc = "returned"
    /\ bin.c.EXCLUDE_TOPICS # <<>> /\ ExcludeTerms(bin.c) = <<>>
    /\ Len(queries) = 3
    /\ SubSeq(queries[1], Len(queries[1]) - Len(ArchivedFalse) + 1, Len(queries[1]))
         = ArchivedFalse

-----------------------------------------------------------------------------
\* C28: in every generation that takes REQUIRE_FRONTEND_TESTS from the
\* environment (gqlFilters, restSeq, restConc), a repository with the
\* language and framework signals, not classified as noise and without
\* frontend-test evidence, is kept when the toggle is false and rejected
\* when it is true.
C28_ToggleControlsRule ==
    (/\ dpc = "done" /\ variant \in FilterVariants
     /\ tech.hasTS /\ tech.hasReact /\ ~courseFlag
     /\ ~tech.hasFrontendTests)
        => (kept <=> ~cfg.REQUIRE_FRONTEND_TESTS)

-----------------------------------------------------------------------------
\* C29: whatever the configuration, BATCH_SIZE of the environment included,
\* the page size of every search request in flight lies in 1..100.
C29_PageSizeWithinLimit ==
    pc = "fetching" => perPage(variant) \in 1..MAX_PER_PAGE


\* what a step of a cursor-paginated run does with the cursor
CursorStep ==
    variant \in CursorVariants =>
       /\ (pc = "page" /\ pc' = "fetching") =>
             IF fetched = 0
             THEN after = 0
             ELSE /\ result.endCursor = fetched
                  /\ after = result.endCursor
                  /\ result.hasNextPage
       /\ (pc = "fetching" /\ pc' = "items") =>
             /\ Len(items') >= 1
             /\ result'.endCursor = fetched
       /\ (pc = "fetching" /\ pc' = "query") => after' = 0
       /\ (qi' # qi) => (after' = 0 /\ fetched' = 0)

\* C30: in the cursor-paginated variants the first page request of every
\* query carries the null cursor (0 here); every later request of the query
\* carries the endCursor of the page answered to the request before it, and
\* that page reported hasNextPage and was kept for processing, which takes at
\* least one edge; whenever the run moves to another query the cursor is
\* null again, so no cursor passes from one query to the next.
C30_CursorThreaded == [][CursorStep]_vars

\* the second query's second page request is in flight with the cursor that
\* its first page returned
C30_Witness ==
    /\ variant \in CursorVariants
    /\ pc = "fetching"
    /\ qi = 2
    /\ fetched = 2
    /\ after = 1
    /\ result.hasNextPage
    /\ result.endCursor = 1


-----------------------------------------------------------------------------
\* the condition under which detectTech starts the scan
scanCondition == ksig.hasReact /\ ksig.hasJest /\ ~ksig.hasFrontendTestLibs

\* what a step of the scan may do to the requests
ScanRequestStep ==
    /\ (nscan' > nscan \/ klast' # klast) => scanCondition
    /\ kmatched => (nscan' = nscan /\ klast' = klast)
    /\ (kmatched' /\ ~kmatched) => (klast.kind = "file" /\ kfound')

\* C31: a listing or a file content is requested only when the framework
\* signal and the test-runner signal are true and the manifest gave no
\* test-utility package; once a file has matched, no further listing and no
\* further file content is requested for the repository.
C31_ScanGuardedAndShortCircuits == [][ScanRequestStep]_vars

\* a file three directories below a pattern matched while its directory and
\* the directories above it still had items to visit, and the scan returned
C31_Witness ==
    /\ kpc = "final"
    /\ kmatched
    /\ ksig.hasFrontendTestLibs
    /\ klast.kind = "file"
    /\ Len(klast.path) = 4
    /\ nscan = 4

\* C32: the scan lists only the four directories src, __tests__, test and
\* tests and directories below them, never one named node_modules or .git,
\* never one whose path has more than three segments, and it comes to its
\* end whether or not a file matches and whichever listing or content
\* requests fail.
C32_ScanBoundedAndTerminates ==
    /\ [](klast.kind = "dir" =>
             /\ klast.path[1] \in {"src", "__tests__", "test", "tests"}
             /\ Len(klast.path) <= 3
             /\ klast.path[Len(klast.path)] \notin {"node_modules", ".git"})
    /\ <>(kpc = "final")

\* the scan ended without a match after a pattern was answered with a
\* failure and a directory three segments deep was listed
C32_Witness ==
    /\ kpc = "final"
    /\ ~kmatched
    /\ ~ksig.hasFrontendTestLibs
    /\ kpat > Len(testPatterns)
    /\ nscan >= 7
    /\ klast.kind = "dir"
    /\ Len(klast.path) = 3


-----------------------------------------------------------------------------
\* the requests a step of detectTech issues
newRequests == SubSeq(lreq', Len(lreq) + 1, Len(lreq'))

issues(name) == \E i \in 1..Len(newRequests) : newRequests[i] = name

\* the tsconfig requests are issued only while the language signal is
\* false, tsconfig.base.json directly after an absent tsconfig.json
TsConfigRequestsGuarded ==
    /\ issues("tsconfig.json") => ~sig.hasTS
    /\ issues("tsconfig.base.json") =>
          /\ ~sig.hasTS
          /\ la.tsconfig = "absent"
          /\ newRequests = <<"tsconfig.json", "tsconfig.base.json">>

\* the jest.config.* requests are issued only while the test-runner signal
\* is false, in the order of the candidates and up to the first file found
JestConfigRequestsGuarded ==
    (\E i \in 1..Len(JestConfigCandidates) : issues(JestConfigCandidates[i])) =>
       /\ ~sig.hasJest
       /\ \E k \in 1..Len(JestConfigCandidates) :
             /\ newRequests = SubSeq(JestConfigCandidates, 1, k)
             /\ \A i \in 1..(k - 1) : la.jestConfigs[i] = "absent"
             /\ k < Len(JestConfigCandidates) => la.jestConfigs[k] # "absent"

\* a step of a call that works through the REST requests
RestStep == Len(lreq') > Len(lreq) /\ lreq # lreq'

RequestsOnlyWhileFalse ==
    RestStep =>
       /\ issues("topics") => ~sig.hasReact
       /\ TsConfigRequestsGuarded
       /\ JestConfigRequestsGuarded

RequestsAsIssued ==
    /\ RestStep =>
          /\ TsConfigRequestsGuarded
          /\ JestConfigRequestsGuarded
    /\ (lpc = "topics" /\ lpc' = "tsconfig" /\ ~viaGraphQL) => issues("topics")

-----------------------------------------------------------------------------
\* the headers of the response as checkDynamicRateLimit parses them
remainingOf(res) == IF res.remaining = <<>> THEN 5000 ELSE res.remaining[1]

resetOf(res) == IF res.reset = <<>> THEN 0 ELSE res.reset[1]

\* timeToReset and the divisor Math.max(remaining, 1)
timeToResetOf(res) ==
    IF resetOf(res) * 1000 > res.now THEN resetOf(res) * 1000 - res.now ELSE 0

divisorOf(res) == IF remainingOf(res) > 1 THEN remainingOf(res) ELSE 1

\* d is min(timeToReset / max(remaining, 1), 5000) in whole milliseconds
IsProportionalWait(d, res) ==
    /\ d <= 5000
    /\ d * divisorOf(res) <= timeToResetOf(res)
    /\ d < 5000 => timeToResetOf(res) < (d + 1) * divisorOf(res)

\* C34: checkDynamicRateLimit sleeps only after a successful response whose
\* remaining quota is below 1000 and whose reset time is known (> 0); the
\* sleep lasts min(timeToReset / max(remaining, 1), 5000 ms), never more than
\* 5 seconds; there is no sleep when that value is 100 ms or less, when
\* remaining >= 1000 or when the reset header is missing, and there is one
\* in every other case of a successful response.
C34_ProactiveThrottle ==
    tpc \in {"sleeping", "returned", "threw", "retry"} =>
       LET slept == tslept # <<>>
           due == /\ ok(tres)
                  /\ remainingOf(tres) < 1000
                  /\ tres.reset # <<>> /\ resetOf(tres) > 0
                  /\ timeToResetOf(tres) > 100 * divisorOf(tres)
       IN  /\ slept <=> due
           /\ slept => /\ IsProportionalWait(tslept[1], tres)
                       /\ tslept[1] <= 5000
                       /\ tslept[1] >= 100

\* a sleep below the cap: 99 requests left 100 s before the reset
C34_Witness ==
    /\ tpc = "returned"
    /\ tslept = <<1010>>
    /\ tres.remaining = <<99>>

\* a sleep at the cap of 5 seconds
C34_WitnessCap ==
    /\ tpc = "sleeping"
    /\ tslept = <<5000>>
    /\ tres.remaining = <<0>>

\* no sleep for a wait of exactly 100 ms
C34_WitnessNoSleep ==
    /\ tpc = "returned"
    /\ ok(tres)
    /\ tslept = <<>>
    /\ tres.remaining = <<1>> /\ tres.reset = <<100>> /\ tres.now = 99900


-----------------------------------------------------------------------------
\* the tasks of the page that have not settled
unsettledTasks == {t \in DOMAIN tasks : tasks[t].st \in {"queued", "running"}}

\* what a step of the concurrent variant does with requests and rows
SequentialStep ==
    variant = "restConc" =>
       /\ (pc # "fetching" /\ pc' = "fetching") =>
             (unsettledTasks = {} /\ queue = <<>>)
       /\ (rows' # rows) =>
             /\ Len(tasks) = Len(items)
             /\ unsettledTasks = {}

\* C35: in the concurrent variant no search page request is issued while a
\* repository-analysis task of an earlier page is still queued or running,
\* no task is left unsettled while a request is awaited, and no row of a
\* page is appended before every task of that page has settled.
C35_PagesStaySequential ==
    /\ [][SequentialStep]_vars
    /\ [](variant = "restConc" /\ pc \in {"page", "fetching", "query"} =>
             unsettledTasks = {} /\ queue = <<>>)

\* the second page of a query is requested after the tasks of the first
\* page, two repositories under a limit of two, settled and a row was written
C35_Witness ==
    /\ variant = "restConc"
    /\ pc = "fetching"
    /\ page = 2
    /\ Len(rows) >= 1
    /\ Cardinality(processed) = 2
    /\ cfg.CONCURRENT_REPOS = 2
    /\ unsettledTasks = {}


-----------------------------------------------------------------------------
\* task t has been started: fn() was called
taskStarted(t) == tasks[t].st \in {"running", "settled", "rejected", "done"}

\* the promise of add for task t carries the outcome of task t: its value
\* when fulfilled, no value when rejected
OwnOutcome(t) ==
    /\ tasks[t].st = "settled" => tasks[t].res = <<items[t]>>
    /\ tasks[t].st = "rejected" => tasks[t].res = <<>>
    /\ tasks[t].st \in {"queued", "running"} => tasks[t].res = <<>>
    /\ tasks[t].st = "done" => tasks[t].res \in {<<>>, <<items[t]>>}

\* an outcome, once there, is not changed by what other tasks do
OutcomeKept ==
    \A t \in DOMAIN tasks :
        tasks[t].st \in {"settled", "rejected", "done"} =>
           tasks'[t].res = tasks[t].res

\* C36: for every limit >= 1, provided every started task settles, every
\* task passed to add is started, exactly once, and its promise settles with
\* the outcome of that task; a task that fails neither holds back the tasks
\* queued behind it nor changes their results, so the batch completes.
C36_EveryTaskRunsOnceAndSettles ==
    /\ [](\A t \in DOMAIN tasks :
             /\ detectCount[items[t]] = (IF taskStarted(t) THEN 1 ELSE 0)
             /\ OwnOutcome(t))
    /\ \A t \in 1..MaxTasks :
          (t \in DOMAIN tasks) ~> (t \in DOMAIN tasks /\ tasks[t].st = "done")
    /\ [][OutcomeKept]_vars

\* under a limit of one the first task was rejected and the three tasks
\* queued behind it ran and were fulfilled with their own values
C36_Witness ==
    /\ pc = "limiter"
    /\ cfg.CONCURRENT_REPOS = 1
    /\ Len(tasks) = MaxTasks
    /\ tasks[1].st = "done" /\ tasks[1].res = <<>>
    /\ \A t \in 2..MaxTasks : tasks[t].st = "done" /\ tasks[t].res = <<items[t]>>
    /\ running = 0


-----------------------------------------------------------------------------
\* the position on the page at which identity r appears first
firstPosition(r) ==
    CHOOSE i \in 1..Len(items) :
        items[i] = r /\ \A j \in 1..(i - 1) : items[j] # r

\* the rows a step appends
newRows == SubSeq(rows', Len(rows) + 1, Len(rows'))

\* a step of the concurrent variant appends rows in the order of the page
RowsInPageOrder ==
    (variant = "restConc" /\ pc = "wait" /\ rows' # rows) =>
       /\ \A i \in 1..Len(newRows) : \E j \in 1..Len(items) : items[j] = newRows[i]
       /\ \A i, j \in 1..Len(newRows) :
             i < j => firstPosition(newRows[i]) < firstPosition(newRows[j])

\* C37: in the concurrent variant the rows of one page are appended in the
\* order in which the repositories appear on the page, whatever the order in
\* which their analysis tasks complete.
C37_RowsFollowPageOrder == [][RowsInPageOrder]_vars

\* every task of a page has settled, the task of the second repository
\* ahead of the first one's, both with a result, and Promise.all resumes
C37_Witness ==
    /\ variant = "restConc"
    /\ pc = "wait"
    /\ cfg.MAX_QUALIFIED = 2
    /\ Len(tasks) >= 2
    /\ promiseAll(tasks)
    /\ \E t \in 2..Len(tasks) :
          /\ tasks[t].early
          /\ tasks[t].res # <<>>
          /\ tasks[1].res # <<>>
          /\ firstPosition(tasks[1].res[1]) < firstPosition(tasks[t].res[1])
    /\ ~stopRequested


-----------------------------------------------------------------------------
\* the repositories on which detectTech was started at least once
analysedRepos == {r \in DOMAIN detectCount : detectCount[r] > 0}

\* C38: at the end of every run, however it ended, the number the summary
\* reports as unique repositories analysed, processed.size, is the number of
\* distinct repositories on which technology detection was started, and the
\* qualified count it reports is the number of rows appended in the run.
C38_SummaryCountsMatch ==
    pc = "done" =>
       /\ Cardinality(processed) = Cardinality(analysedRepos)
       /\ totalQualified = Len(rows)

=============================================================================
